---- MODULE Spec2Model ----
(***************************************************************************)
(* A model of memory_cli.py: the append-only event log (memory_events),   *)
(* the reducer that projects it into cards and the other derived tables,  *)
(* and the public operations of MemoryEngine that write to the log.       *)
(*                                                                         *)
(* A store is a record with one field per table.  `db` is the store as    *)
(* the open connection sees it, `disk` the store as of the last commit:   *)
(* sqlite3's connection context manager (`with self.conn:`) commits when  *)
(* its block ends and rolls back to the last commit when the block raises.*)
(* Hashes (sha256, deterministic_id) are modelled as injective: a hash is  *)
(* the string of its parts.                                                *)
(***************************************************************************)
EXTENDS Integers, Sequences, FiniteSets, TLC

VARIABLES db, disk, clock, uuids, last, scn, seeded, peer

vars == <<db, disk, clock, uuids, last, scn, seeded, peer>>

NONE == "none"

(***************************************************************************)
(* Bounds of the model.                                                    *)
(***************************************************************************)
MaxEvents == 7
MaxClock == 30
MaxUuids == 2
MaxDecisionId == 6

(***************************************************************************)
(* Program constants.                                                      *)
(***************************************************************************)
STOPWORDS ==
  {"a", "an", "and", "are", "as", "at", "be", "but", "by", "for", "from",
   "has", "have", "if", "in", "is", "it", "of", "on", "or", "that", "the",
   "to", "was", "were", "with", "you", "your", "i", "we", "this", "those",
   "these"}

KINDS == <<"preference", "constraint", "commitment", "fact", "tactic", "negative_result">>

NORMATIVE_KINDS == {"preference", "constraint", "commitment"}

KIND_PRIORITY ==
  [constraint |-> 0, commitment |-> 1, preference |-> 2,
   negative_result |-> 3, tactic |-> 4, fact |-> 5]

BUDGET_CAPS ==
  [repo |-> [preference |-> 80, constraint |-> 120, commitment |-> 120,
             fact |-> 300, tactic |-> 120, negative_result |-> 120],
   domain |-> [preference |-> 40, constraint |-> 60, commitment |-> 60,
               fact |-> 180, tactic |-> 80, negative_result |-> 80],
   global |-> [preference |-> 20, constraint |-> 30, commitment |-> 30,
               fact |-> 100, tactic |-> 40, negative_result |-> 40]]

EPISODE_KIND_CAPS ==
  [fact |-> 4, tactic |-> 2, negative_result |-> 2, preference |-> 2,
   constraint |-> 1, commitment |-> 1]

EPISODE_SOFT_CAP == 12

\* DISPUTE_WEIGHTS and DISPUTE_THRESHOLDS in tenths (1.0 -> 10).
DISPUTE_WEIGHTS == [tool_output |-> 10, doc_span |-> 7, user_span |-> 4]

DISPUTE_THRESHOLDS == [repo |-> 20, domain |-> 30, global |-> 40]

PACK_TOTAL_CAP == 8

PACK_SLOT_CAPS ==
  [constraints_commitments |-> 3, negative_result |-> 2, tactic |-> 2, fact |-> 3]

PACK_TOPIC_CAP == 2

\* build_pack: retrieve_cards(limit = 200), and ranked[:100] in the snapshot.
RETRIEVE_LIMIT == 200

SNAPSHOT_RANKED_CAP == 100

TERMINAL_OUTCOMES ==
  {"tool_success", "tool_failure", "user_confirmed_helpful", "user_corrected"}

REF_KINDS == {"user_span", "tool_output", "doc_span"}

ARTIFACT_KINDS == {"tool_output", "doc"}

SCOPE_TIERS == {"repo", "domain", "global"}

CARD_STATUSES == {"active", "needs_recheck", "deprecated", "archived"}

CHANNELS == {"auto_pack", "search", "explicit_read", "check"}

\* archive_hygiene_pass: threshold_days.
THRESHOLD_DAYS == 30

\* The clock counts days; time passes in steps of TickDays.
TickDays == THRESHOLD_DAYS

(***************************************************************************)
(* Texts.  A text is named by a string; TEXT_WORDS gives its words after  *)
(* whitespace normalisation, TEXT_LOWER the name of its lower-cased form. *)
(***************************************************************************)
TEXT_WORDS ==
  [pin      |-> <<"we", "must", "always", "pin", "versions">>,
   PIN      |-> <<"we", "must", "always", "pin", "versions">>,
   tabs     |-> <<"i", "will", "choose", "tabs", "for", "indents">>,
   spaces   |-> <<"i", "will", "choose", "spaces", "for", "indents">>,
   timeout  |-> <<"command", "timeout", "at", "30s">>,
   succeeded |-> <<"command", "succeeded">>,
   runtests |-> <<"run", "the", "tests", "first">>,
   runtest2 |-> <<"first", "run", "the", "tests">>,
   sky      |-> <<"the", "sky", "is", "grey">>,
   itis     |-> <<"it", "is">>,
   usespaces |-> <<"please", "use", "spaces">>,
   usetabs  |-> <<"please", "use", "tabs">>,
   moreblue |-> <<"red", "blue", "blue", "blue", "blue", "blue", "blue", "blue", "blue",
                  "blue", "green", "gold">>,
   twopink  |-> <<"red", "red", "blue", "green", "pink", "pink">>,
   morered  |-> <<"red", "red", "red", "red", "red", "red", "red", "red", "red",
                  "blue", "green", "gold">>,
   plain    |-> <<"red", "blue", "green", "gold">>,
   withpink |-> <<"red", "red", "blue", "blue", "green", "green", "gold", "pink">>,
   redder   |-> <<"red", "red", "red", "red", "red", "blue", "green", "gold">>,
   empty    |-> <<>>]

TEXTS == DOMAIN TEXT_WORDS

TEXT_LOWER == [t \in TEXTS |-> IF t = "PIN" THEN "pin" ELSE t]

\* The texts in the order of their lower-cased strings.
TextOrder ==
  <<"empty", "succeeded", "timeout", "runtest2", "spaces", "tabs", "itis",
    "usespaces", "usetabs", "moreblue", "plain", "withpink", "twopink", "redder",
    "morered", "runtests", "sky",
    "pin">>

\* The episodes, evidence refs and scopes of the budget scenario are numbered
\* 1..MaxFamily.
MaxFamily == BUDGET_CAPS["global"]["preference"] + 1

\* The n-th name of a family of names: g07, s12.
Numbered(prefix, n) == prefix \o (IF n < 10 THEN "0" ELSE "") \o ToString(n)

\* The episodes, evidence refs and scopes of the wide scenario are numbered
\* 1..WideFamily: one more than the snapshot of a pack has ranked candidates.
WideFamily == SNAPSHOT_RANKED_CAP + 1

\* The n-th name of a family of more than 99 names: w007, y101.
Numbered3(prefix, n) == prefix \o (IF n < 100 THEN "0" ELSE "") \o Numbered("", n)

\* The other names (episode, artifact, evidence ref and scope ids) in string order.
NameOrder ==
  <<"a1", "a2", "default", "domain", "ep1", "ep2", "ep_u1", "ep_u2", "ep_u3">>
    \o [n \in 1..MaxFamily |-> Numbered("g", n)]
    \o <<"global", "missing", "other">>
    \o [n \in 1..MaxFamily |-> Numbered("q", n)]
    \o <<"r1", "r2", "r3", "r4", "r5", "r6", "repo">>
    \o [n \in 1..MaxFamily |-> Numbered("s", n)]
    \o [n \in 1..WideFamily |-> Numbered3("w", n)]
    \o [n \in 1..WideFamily |-> Numbered3("x", n)]
    \o [n \in 1..WideFamily |-> Numbered3("y", n)]

PositionIn(seq, n) ==
  IF \E i \in 1..Len(seq) : seq[i] = n
  THEN CHOOSE i \in 1..Len(seq) : seq[i] = n
  ELSE 0

NameRank(n) == PositionIn(NameOrder, n)

TextRank(t) == PositionIn(TextOrder, TEXT_LOWER[t])

(***************************************************************************)
(* Sequence helpers.                                                       *)
(***************************************************************************)
Range(s) == {s[i] : i \in 1..Len(s)}

RECURSIVE SeqSum(_)
SeqSum(s) == IF s = <<>> THEN 0 ELSE Head(s) + SeqSum(Tail(s))

RECURSIVE SetToSeq(_)
\* The elements of the finite set S, each once, in some fixed order.
SetToSeq(S) ==
  IF S = {} THEN <<>>
  ELSE LET x == CHOOSE y \in S : TRUE IN <<x>> \o SetToSeq(S \ {x})

\* The elements of S, each with one more than the number of elements before it.
RankPairs(S, Before(_, _)) == {<<Cardinality({y \in S : Before(y, x)}) + 1, x>> : x \in S}

\* Whether the positions of P are 1..n, as they are under a total order.
DensePairs(P) == {p[1] : p \in P} = 1..Cardinality(P)

SeqOfPairs(P) == [i \in 1..Cardinality(P) |-> (CHOOSE p \in P : p[1] = i)[2]]

\* The elements of S as a sequence sorted by Before(_, _) (a strict order;
\* elements it leaves unordered keep a fixed order).
SortedSeq(S, Before(_, _)) ==
  CHOOSE r \in
    {IF DensePairs(P) THEN SeqOfPairs(P) ELSE SortSeq(SetToSeq({p[2] : p \in P}), Before)
     : P \in {RankPairs(T, Before) : T \in {S}}} : TRUE

\* The sum of F(x) over the finite set S.
SetSum(S, F(_)) ==
  LET s == SetToSeq(S) IN SeqSum([i \in 1..Len(s) |-> F(s[i])])

Max(a, b) == IF a >= b THEN a ELSE b

Min(a, b) == IF a <= b THEN a ELSE b

SetMax(S) == CHOOSE x \in S : \A y \in S : y <= x

Min2(S) == CHOOSE x \in S : \A y \in S : x <= y

\* floor(sqrt(v)), by bisection.
RECURSIVE IsqrtIn(_, _, _)
IsqrtIn(v, lo, hi) ==
  IF lo >= hi THEN lo
  ELSE LET mid == (lo + hi + 1) \div 2
       IN IF mid * mid <= v THEN IsqrtIn(v, mid, hi) ELSE IsqrtIn(v, lo, mid - 1)

Isqrt(v) == IsqrtIn(v, 0, 46340)

(***************************************************************************)
(* Hashing and text primitives.                                            *)
(***************************************************************************)
\* tokenize: the words that are not stopwords, in order.
tokenize(t) == SelectSeq(TEXT_WORDS[t], LAMBDA w : w \notin STOPWORDS)

\* Counter(tokenize(t))[w].
TokenCount(t, w) == Cardinality({i \in 1..Len(tokenize(t)) : tokenize(t)[i] = w})

\* jaccard_similarity in thousandths.
jaccard_similarity(a, b) ==
  LET ta == Range(tokenize(a))
      tb == Range(tokenize(b))
  IN IF ta = {} /\ tb = {} THEN 1000
     ELSE IF ta = {} \/ tb = {} THEN 0
     ELSE (1000 * Cardinality(ta \cap tb)) \div Cardinality(ta \cup tb)

\* floor(n * 1000000 / d), in steps that stay within 32 bits.
MillionthsOf(n, d) ==
  (n \div d) * 1000000 + (((n % d) * 1000) \div d) * 1000
    + ((((n % d) * 1000) % d) * 1000) \div d

\* cosine_similarity_text in thousandths.
cosine_similarity_text(a, b) ==
  LET ta == Range(tokenize(a))
      tb == Range(tokenize(b))
      dot == SetSum(ta \cap tb, LAMBDA w : TokenCount(a, w) * TokenCount(b, w))
      na2 == SetSum(ta, LAMBDA w : TokenCount(a, w) * TokenCount(a, w))
      nb2 == SetSum(tb, LAMBDA w : TokenCount(b, w) * TokenCount(b, w))
  IN IF ta = {} \/ tb = {} THEN 0
     ELSE Isqrt(MillionthsOf(dot * dot, na2 * nb2))

\* Whether the words kw occur in text t one after the other ("*" is any word).
ContainsWords(t, kw) ==
  LET w == TEXT_WORDS[t]
  IN \E i \in 1..Len(w) :
       /\ i + Len(kw) - 1 <= Len(w)
       /\ \A j \in 1..Len(kw) : kw[j] = "*" \/ w[i + j - 1] = kw[j]

ContainsAny(t, kws) == \E kw \in kws : ContainsWords(t, kw)

contains_failure_signal(t) ==
  ContainsAny(t, {<<"error">>, <<"failed">>, <<"exception">>, <<"traceback">>,
                  <<"non-zero">>, <<"timeout">>, <<"panic">>})

\* topic_key: the first token of 4 or more letters, else the first token.
TOKEN_LENGTH ==
  [must |-> 4, always |-> 6, pin |-> 3, versions |-> 8, will |-> 4, choose |-> 6,
   tabs |-> 4, spaces |-> 6, indents |-> 7, please |-> 6, use |-> 3, command |-> 7, timeout |-> 7,
   succeeded |-> 9, run |-> 3, tests |-> 5, first |-> 5,
   sky |-> 3, grey |-> 4, red |-> 3, blue |-> 4, green |-> 5, gold |-> 4, pink |-> 4]

TokenLength(w) == IF w \in DOMAIN TOKEN_LENGTH THEN TOKEN_LENGTH[w] ELSE 3

topic_key(t) ==
  LET tokens == tokenize(t)
      long == {i \in 1..Len(tokens) : TokenLength(tokens[i]) >= 4}
  IN IF long # {} THEN tokens[CHOOSE i \in long : \A j \in long : i <= j]
     ELSE IF tokens # <<>> THEN tokens[1] ELSE "general"

\* deterministic_id("card", kind, scope_tier, scope_id, lower(statement)).
CardId(kind, scope_tier, scope_id, t) ==
  "card:" \o kind \o ":" \o scope_tier \o ":" \o scope_id \o ":" \o TEXT_LOWER[t]

\* deterministic_id("cand", episode_id, str(idx), kind, lower(statement)).
CandidateId(episode_id, idx, kind, t) ==
  "cand:" \o episode_id \o ":" \o ToString(idx) \o ":" \o kind \o ":" \o TEXT_LOWER[t]

(***************************************************************************)
(* The store: one field per table of init_schema.  Tables are sets of     *)
(* rows, memory_events and consolidation_decisions are kept in the order  *)
(* of their AUTOINCREMENT keys.  unapplied is not a table: it is a history *)
(* of the log, the event ids that append_event stored with apply = false.  *)
(***************************************************************************)
EmptyStore ==
  [episodes |-> {}, artifacts |-> {}, evidence_refs |-> {},
   memory_events |-> <<>>,
   cards |-> {}, card_evidence_refs |-> {},
   consolidation_decisions |-> <<>>, decision_seq |-> 0,
   consolidation_ledger |-> {}, cards_fts |-> {}, card_embeddings |-> {},
   pack_snapshots |-> {}, exposures |-> {}, disputes |-> {},
   card_status_history |-> {}, outcomes |-> {}, utility_stats |-> {},
   unapplied |-> {}]

\* dict.get(k): the field, NONE when it is absent.
Get(p, k) == IF k \in DOMAIN p THEN p[k] ELSE NONE

HasEpisode(d, id) == \E e \in d.episodes : e.episode_id = id

EpisodeRow(d, id) == CHOOSE e \in d.episodes : e.episode_id = id

HasCard(d, id) == \E c \in d.cards : c.card_id = id

CardRow(d, id) == CHOOSE c \in d.cards : c.card_id = id

HasRef(d, id) == \E r \in d.evidence_refs : r.evidence_ref_id = id

RefRow(d, id) == CHOOSE r \in d.evidence_refs : r.evidence_ref_id = id

HasArtifact(d, id) == \E a \in d.artifacts : a.artifact_id = id

\* ORDER BY card_id: card ids are hashes, so any fixed total order stands for it.
KindRank(k) == PositionIn(KINDS, k)

CardKey(c) ==
  ((KindRank(c.kind) * 100 + NameRank(c.scope_tier)) * 100 + NameRank(c.scope_id)) * 100
    + TextRank(c.statement)

EventsOf(d, episode_id) ==
  SelectSeq(d.memory_events, LAMBDA e : e.episode_id = episode_id)

(***************************************************************************)
(* The reducer.  Each operator takes the store d (the event is already in *)
(* d.memory_events) and gives the store after the handler, or FAILED when *)
(* the handler raises (a constraint of init_schema fails, a key is        *)
(* missing from the payload).                                              *)
(***************************************************************************)
FAILED == [failed |-> TRUE]

IsFailed(d) == "failed" \in DOMAIN d

CONSOLIDATION_EVENTS ==
  {"candidate_proposed", "card_rejected", "card_admitted", "card_merged",
   "card_superseded", "card_archived"}

\* INSERT OR REPLACE / DELETE of the row with the same key.
Without(T, field, key) == {r \in T : r[field] # key}

\* The row refresh_ledger computes for the episode from the log.
LedgerRow(d, episode_id, now) ==
  LET evs == SelectSeq(d.memory_events,
                       LAMBDA e : e.episode_id = episode_id
                                  /\ e.event_type \in CONSOLIDATION_EVENTS)
      n(t) == Cardinality({i \in 1..Len(evs) : evs[i].event_type = t})
      withReason == {i \in 1..Len(evs) : Get(evs[i].payload, "reason_code") # NONE}
      reasons == {evs[i].payload.reason_code : i \in withReason}
      all == EventsOf(d, episode_id)
      row == [episode_id |-> episode_id,
              proposed_count |-> n("candidate_proposed"),
              admitted_count |-> n("card_admitted"),
              rejected_count |-> n("card_rejected"),
              merged_count |-> n("card_merged"),
              superseded_count |-> n("card_superseded"),
              archived_count |-> n("card_archived"),
              reason_breakdown |->
                {[reason_code |-> r,
                  n |-> Cardinality({i \in withReason : evs[i].payload.reason_code = r})]
                 : r \in reasons},
              computed_at |->
                IF all # <<>> THEN SetMax({all[i].created_at : i \in 1..Len(all)})
                ELSE now]
  IN row

\* A variant of refresh_ledger that keeps the row an episode has.
refresh_ledger_once(d, episode_id, now) ==
  IF \E r \in d.consolidation_ledger : r.episode_id = episode_id THEN d
  ELSE [d EXCEPT !.consolidation_ledger = @ \cup {LedgerRow(d, episode_id, now)}]

refresh_ledger(d, episode_id, now) ==
  [d EXCEPT !.consolidation_ledger =
     Without(@, "episode_id", episode_id) \cup {LedgerRow(d, episode_id, now)}]

refresh_card_indices(d, card_id, updated_event_id) ==
  IF ~HasCard(d, card_id) THEN d
  ELSE LET c == CardRow(d, card_id)
       IN [d EXCEPT
             !.cards_fts = Without(@, "card_id", card_id)
                 \cup {[card_id |-> card_id, statement |-> c.statement,
                        topic_key |-> c.topic_key, tags |-> c.tags]},
             !.card_embeddings = Without(@, "card_id", card_id)
                 \cup {[card_id |-> card_id, embedding_model |-> "pseudo-v1",
                        dim |-> 64, text |-> c.statement,
                        updated_event_id |-> updated_event_id]}]

RECURSIVE RefreshAll(_, _, _)
RefreshAll(d, ids, event_id) ==
  IF ids = <<>> THEN d
  ELSE RefreshAll(refresh_card_indices(d, Head(ids), event_id), Tail(ids), event_id)

\* INSERT OR IGNORE INTO card_evidence_refs for each id of refs; FAILED when a
\* foreign key (the card, the evidence ref) has no row.
LinkEvidence(d, card_id, refs) ==
  IF refs = <<>> THEN d
  ELSE IF ~HasCard(d, card_id) \/ \E i \in 1..Len(refs) : ~HasRef(d, refs[i]) THEN FAILED
  ELSE [d EXCEPT !.card_evidence_refs =
          @ \cup {[card_id |-> card_id, evidence_ref_id |-> refs[i]] : i \in 1..Len(refs)}]

\* INSERT OR REPLACE INTO card_status_history; card_id REFERENCES cards.
AddStatusHistory(d, card_id, event_id, from_status, to_status, reason_code, ts) ==
  IF ~HasCard(d, card_id) THEN FAILED
  ELSE [d EXCEPT !.card_status_history =
          {h \in @ : ~(h.card_id = card_id /\ h.event_id = event_id)}
            \cup {[card_id |-> card_id, event_id |-> event_id,
                   from_status |-> from_status, to_status |-> to_status,
                   reason_code |-> reason_code, created_at |-> ts]}]

\* UPDATE cards SET ... WHERE card_id = ?
UpdateCard(d, card_id, F(_)) ==
  [d EXCEPT !.cards = {IF c.card_id = card_id THEN F(c) ELSE c : c \in @}]

\* Run the next statement G on d unless an earlier one has raised.
Then(d, G(_)) == IF IsFailed(d) THEN d ELSE G(d)

apply_consolidation_event(d, event_id, episode_id, event_type, payload, event_ts) ==
  LET decision ==
        [decision_id |-> d.decision_seq + 1, event_id |-> event_id,
         episode_id |-> episode_id, candidate_id |-> Get(payload, "candidate_id"),
         action |-> event_type, reason_code |-> Get(payload, "reason_code"),
         details |-> payload, created_at |-> event_ts]
      d1 == [d EXCEPT !.consolidation_decisions = Append(@, decision),
                      !.decision_seq = @ + 1]
  IN CASE event_type = "card_admitted" ->
            IF "card" \notin DOMAIN payload THEN FAILED
            ELSE LET card == payload.card
                     status == IF "status" \in DOMAIN card THEN card.status ELSE "active"
                     sup == Get(card, "supersedes_card_id")
                     refs == IF "evidence_ref_ids" \in DOMAIN card
                             THEN card.evidence_ref_ids ELSE <<>>
                     row == [card_id |-> card.card_id, kind |-> card.kind,
                             statement |-> card.statement,
                             scope_tier |-> card.scope_tier, scope_id |-> card.scope_id,
                             topic_key |-> card.topic_key,
                             tags |-> IF "tags" \in DOMAIN card THEN card.tags ELSE <<>>,
                             status |-> status, supersedes_card_id |-> sup,
                             created_event_id |->
                               IF HasCard(d, card.card_id)
                               THEN CardRow(d, card.card_id).created_event_id
                               ELSE event_id,
                             updated_event_id |-> event_id, archived_at |-> -1,
                             \* the rowid INSERT OR REPLACE gives the new row
                             rowid |-> SetMax({0} \cup {c.rowid : c \in d.cards}) + 1]
                 IN IF \/ card.kind \notin Range(KINDS)
                       \/ card.scope_tier \notin SCOPE_TIERS
                       \/ status \notin CARD_STATUSES
                       \/ (sup # NONE /\ sup # card.card_id /\ ~HasCard(d, sup))
                    THEN FAILED
                    ELSE LinkEvidence(
                           [d1 EXCEPT !.cards = Without(@, "card_id", card.card_id) \cup {row}],
                           card.card_id, refs)
       [] event_type = "card_merged" ->
            IF "target_card_id" \notin DOMAIN payload THEN FAILED
            ELSE LinkEvidence(
                   UpdateCard(d1, payload.target_card_id,
                              LAMBDA c : [c EXCEPT !.updated_event_id = event_id]),
                   payload.target_card_id,
                   IF "evidence_ref_ids" \in DOMAIN payload
                   THEN payload.evidence_ref_ids ELSE <<>>)
       [] event_type = "card_superseded" ->
            IF "old_card_id" \notin DOMAIN payload THEN FAILED
            ELSE AddStatusHistory(
                   UpdateCard(d1, payload.old_card_id,
                              LAMBDA c : [c EXCEPT !.status = "deprecated",
                                                   !.updated_event_id = event_id]),
                   payload.old_card_id, event_id,
                   IF "from_status" \in DOMAIN payload THEN payload.from_status ELSE "active",
                   "deprecated",
                   IF "reason_code" \in DOMAIN payload THEN payload.reason_code
                   ELSE "superseded",
                   event_ts)
       [] event_type = "card_archived" ->
            IF "card_id" \notin DOMAIN payload THEN FAILED
            ELSE AddStatusHistory(
                   UpdateCard(d1, payload.card_id,
                              LAMBDA c : [c EXCEPT !.status = "archived",
                                                   !.archived_at = event_ts,
                                                   !.updated_event_id = event_id]),
                   payload.card_id, event_id,
                   IF HasCard(d, payload.card_id) THEN CardRow(d, payload.card_id).status
                   ELSE "active",
                   "archived",
                   IF "reason_code" \in DOMAIN payload THEN payload.reason_code
                   ELSE "archived",
                   event_ts)
       [] OTHER -> d1

\* The card ids apply_event refreshes after a consolidation event.
RefreshedCardIds(payload) ==
  (IF "card" \in DOMAIN payload /\ "card_id" \in DOMAIN payload.card
   THEN {payload.card.card_id} ELSE {})
  \cup {payload[k] : k \in {"target_card_id", "old_card_id", "new_card_id", "card_id"}
                            \cap DOMAIN payload}

\* me.seq_no of the JOIN memory_events me ON me.event_id = ...
SeqNoOf(d, event_id) == d.memory_events[event_id].seq_no

\* The outcome rows of an episode, ORDER BY me.seq_no.
OutcomeRows(d, episode_id) ==
  SortedSeq({o \in d.outcomes : o.episode_id = episode_id},
            LAMBDA a, b : SeqNoOf(d, a.event_id) < SeqNoOf(d, b.event_id))

FirstTwo(rows) == SubSeq(rows, 1, Min(2, Len(rows)))

\* ORDER BY e.rank_position ASC, e.score_total DESC, e.card_id ASC
ExposureOrder(d, a, b) ==
  \/ a.rank_position < b.rank_position
  \/ /\ a.rank_position = b.rank_position
     /\ a.score_total > b.score_total
  \/ /\ a.rank_position = b.rank_position
     /\ a.score_total = b.score_total
     /\ CardKey(CardRow(d, a.card_id)) < CardKey(CardRow(d, b.card_id))

IsTactic(d, card_id) == HasCard(d, card_id) /\ CardRow(d, card_id).kind = "tactic"

\* A variant of EligibleExposures that takes every exposure, not the first two.
ExposuresBefore(d, episode_id, first_terminal_seq) ==
  SortedSeq({e \in d.exposures :
               /\ e.episode_id = episode_id
               /\ e.channel = "auto_pack"
               /\ IsTactic(d, e.card_id)
               /\ SeqNoOf(d, e.source_event_id) < first_terminal_seq},
            LAMBDA a, b : ExposureOrder(d, a, b))

\* The first two auto_pack exposures of tactic cards logged in the episode
\* before seq_no first_terminal_seq, by rank, score and card id.
EligibleExposures(d, episode_id, first_terminal_seq) ==
  FirstTwo(SortedSeq({e \in d.exposures :
                        /\ e.episode_id = episode_id
                        /\ e.channel = "auto_pack"
                        /\ IsTactic(d, e.card_id)
                        /\ SeqNoOf(d, e.source_event_id) < first_terminal_seq},
                     LAMBDA a, b : ExposureOrder(d, a, b)))

\* One attribution [ep, i, card_id, win, loss, event] per eligible exposure.
AttributionRows(episode_id, eligible, success, failure, event_id) ==
  {[ep |-> episode_id, i |-> i, card_id |-> eligible[i].card_id,
    win |-> IF success THEN 1 ELSE 0, loss |-> IF failure THEN 1 ELSE 0,
    event |-> event_id] : i \in 1..Len(eligible)}

FirstTerminal(rows) ==
  rows[CHOOSE i \in 1..Len(rows) :
         /\ rows[i].outcome_type \in TERMINAL_OUTCOMES
         /\ \A j \in 1..(i - 1) : rows[j].outcome_type \notin TERMINAL_OUTCOMES]

AttributionFrom(d, episode_id, rows, first) ==
  AttributionRows(episode_id,
    EligibleExposures(d, episode_id, SeqNoOf(d, first.event_id)),
    \E i \in 1..Len(rows) :
      rows[i].outcome_type \in {"tool_success", "user_confirmed_helpful"},
    \E i \in 1..Len(rows) :
      rows[i].outcome_type \in {"tool_failure", "user_corrected"},
    first.event_id)

AttributionOf(d, episode_id, rows) ==
  IF \/ \A i \in 1..Len(rows) : rows[i].evidence_ref_ids = <<>>
     \/ \A i \in 1..Len(rows) : rows[i].outcome_type \notin TERMINAL_OUTCOMES
  THEN {}
  ELSE AttributionFrom(d, episode_id, rows, FirstTerminal(rows))

\* What recompute_utility_projection attributes to the cards of one episode.
EpisodeAttribution(d, episode_id) ==
  AttributionOf(d, episode_id, OutcomeRows(d, episode_id))

UtilityRow(cid, exps, mine) ==
  [card_id |-> cid,
   wins |-> SetSum(mine, LAMBDA x : x.win),
   losses |-> SetSum(mine, LAMBDA x : x.loss),
   reuse |-> Cardinality(exps),
   updated_event_id |->
     SetMax({0} \cup {e.source_event_id : e \in exps} \cup {x.event : x \in mine})]

UtilityRows(reuseRows, attr) ==
  {UtilityRow(cid, {e \in reuseRows : e.card_id = cid},
              {x \in attr : x.card_id = cid})
   : cid \in {e.card_id : e \in reuseRows} \cup {x.card_id : x \in attr}}

recompute_utility_projection(d) ==
  [d EXCEPT !.utility_stats =
     UtilityRows({e \in d.exposures : IsTactic(d, e.card_id)},
                 UNION {EpisodeAttribution(d, ep)
                        : ep \in {o.episode_id : o \in d.outcomes}})]

\* A variant of ApplyExposure that writes the snapshot row and no exposure row.
ApplySnapshotOnly(d, event_id, episode_id, payload, event_ts) ==
  IF "pack_snapshot" \notin DOMAIN payload THEN FAILED
  ELSE IF payload.pack_snapshot.channel \notin CHANNELS THEN FAILED
  ELSE recompute_utility_projection(
         [d EXCEPT !.pack_snapshots =
            Without(@, "pack_id", payload.pack_snapshot.pack_id)
              \cup {[pack_id |-> payload.pack_snapshot.pack_id,
                     episode_id |-> episode_id,
                     channel |-> payload.pack_snapshot.channel,
                     query_text |-> payload.pack_snapshot.query_text,
                     ranked_candidates |-> payload.pack_snapshot.ranked_candidates,
                     selected_cards |-> payload.pack_snapshot.selected_cards,
                     created_at |-> event_ts]}])

\* exposure_recorded: the snapshot row and one exposure row per entry.
ApplyExposure(d, event_id, episode_id, payload, event_ts) ==
  IF "pack_snapshot" \notin DOMAIN payload THEN FAILED
  ELSE LET snap == payload.pack_snapshot
           exps == IF "exposures" \in DOMAIN payload THEN payload.exposures ELSE <<>>
           snapRow == [pack_id |-> snap.pack_id, episode_id |-> episode_id,
                       channel |-> snap.channel, query_text |-> snap.query_text,
                       ranked_candidates |-> snap.ranked_candidates,
                       selected_cards |-> snap.selected_cards,
                       created_at |-> event_ts]
           expRow(x) == [exposure_id |-> x.exposure_id, episode_id |-> episode_id,
                         pack_id |-> snap.pack_id, card_id |-> x.card_id,
                         channel |-> x.channel, rank_position |-> x.rank_position,
                         score_total |-> x.score_total, source_event_id |-> event_id,
                         created_at |-> event_ts]
           newIds == {exps[i].exposure_id : i \in 1..Len(exps)}
       IN IF \/ snap.channel \notin CHANNELS
             \/ \E i \in 1..Len(exps) :
                  ~HasCard(d, exps[i].card_id) \/ exps[i].channel \notin CHANNELS
          THEN FAILED
          ELSE recompute_utility_projection(
                 [d EXCEPT
                    !.pack_snapshots = Without(@, "pack_id", snap.pack_id) \cup {snapRow},
                    !.exposures = {e \in @ : e.exposure_id \notin newIds}
                                    \cup {expRow(exps[i]) : i \in 1..Len(exps)}])

apply_event(d, event_id, episode_id, event_type, payload, event_ts) ==
  CASE event_type \in CONSOLIDATION_EVENTS ->
         Then(Then(apply_consolidation_event(d, event_id, episode_id, event_type,
                                             payload, event_ts),
                   LAMBDA x : refresh_ledger(x, episode_id, event_ts)),
              LAMBDA x :
                IF event_type \in {"card_admitted", "card_merged", "card_superseded",
                                   "card_archived"}
                THEN RefreshAll(x, SetToSeq(RefreshedCardIds(payload)), event_id)
                ELSE x)
    [] event_type = "card_status_changed" ->
         IF /\ {"card_id", "from_status", "to_status"} \subseteq DOMAIN payload
            /\ (HasCard(d, payload.card_id) => payload.to_status \in CARD_STATUSES)
         THEN Then(AddStatusHistory(
                     UpdateCard(d, payload.card_id,
                                LAMBDA c : [c EXCEPT !.status = payload.to_status,
                                                     !.updated_event_id = event_id]),
                     payload.card_id, event_id, payload.from_status, payload.to_status,
                     IF "reason_code" \in DOMAIN payload THEN payload.reason_code
                     ELSE "status_change",
                     event_ts),
                   LAMBDA x : refresh_card_indices(x, payload.card_id, event_id))
         ELSE FAILED
    [] event_type = "card_deprecated" ->
         IF "card_id" \notin DOMAIN payload THEN FAILED
         ELSE Then(AddStatusHistory(
                     UpdateCard(d, payload.card_id,
                                LAMBDA c : [c EXCEPT !.status = "deprecated",
                                                     !.updated_event_id = event_id]),
                     payload.card_id, event_id,
                     IF HasCard(d, payload.card_id) THEN CardRow(d, payload.card_id).status
                     ELSE "active",
                     "deprecated",
                     IF "reason_code" \in DOMAIN payload THEN payload.reason_code
                     ELSE "deprecated",
                     event_ts),
                   LAMBDA x : refresh_card_indices(x, payload.card_id, event_id))
    [] event_type = "dispute_recorded" ->
         IF ~({"dispute_id", "card_id", "evidence_ref_id", "weight"} \subseteq DOMAIN payload)
            \/ ~HasCard(d, payload.card_id) \/ ~HasRef(d, payload.evidence_ref_id)
         THEN FAILED
         ELSE [d EXCEPT !.disputes =
                 Without(@, "dispute_id", payload.dispute_id)
                   \cup {[dispute_id |-> payload.dispute_id, card_id |-> payload.card_id,
                          evidence_ref_id |-> payload.evidence_ref_id,
                          weight |-> payload.weight, event_id |-> event_id,
                          created_at |-> event_ts]}]
    [] event_type = "exposure_recorded" ->
         ApplyExposure(d, event_id, episode_id, payload, event_ts)
    [] event_type = "outcome_recorded" ->
         IF "outcome_type" \notin DOMAIN payload THEN FAILED
         ELSE recompute_utility_projection(
                [d EXCEPT !.outcomes =
                   Without(@, "event_id", event_id)
                     \cup {[event_id |-> event_id, episode_id |-> episode_id,
                            outcome_type |-> payload.outcome_type,
                            evidence_ref_ids |->
                              IF "evidence_ref_ids" \in DOMAIN payload
                              THEN payload.evidence_ref_ids ELSE <<>>,
                            metadata |-> Get(payload, "metadata_json"),
                            created_at |-> event_ts]}])
    [] OTHER -> d

(***************************************************************************)
(* The write path.  A connection state s is [db, disk, ok, res]: the      *)
(* store as the connection sees it, the store as of the last commit,      *)
(* whether the call returned (FALSE: it raised), and what it returned.    *)
(***************************************************************************)
\* What a call returns: the identifiers of append_event, status_changed of
\* record_dispute, digest_changed and verified of full_rebuild.
LiveStatuses == {"active", "needs_recheck"}

\* SELECT COUNT(*) FROM cards WHERE scope_tier = ? AND kind = ? AND status IN (...)
ActiveScopeCount(d, scope_tier, kind) ==
  Cardinality({c \in d.cards : /\ c.scope_tier = scope_tier /\ c.kind = kind
                               /\ c.status \in LiveStatuses})

\* The least of BUDGET_CAPS[scope_tier][kind] - ActiveScopeCount over the budgets:
\* it is below 0 when some budget is exceeded.
Headroom(d) ==
  Min2({BUDGET_CAPS[t][k] - ActiveScopeCount(d, t, k) : t \in SCOPE_TIERS, k \in Range(KINDS)})

NoResult ==
  [event_id |-> 0, episode_id |-> NONE, seq_no |-> 0, inserted |-> FALSE,
   changed |-> FALSE, verified |-> FALSE]

Result(event_id, episode_id, seq_no, inserted) ==
  [NoResult EXCEPT !.event_id = event_id, !.episode_id = episode_id,
                   !.seq_no = seq_no, !.inserted = inserted]

\* The connection a call works with: the store it sees, the committed store,
\* whether it has not raised, and what it returns.  room is a history of the
\* call: the least Headroom of the stores the connection has gone through.
Conn(d, k) == [db |-> d, disk |-> k, ok |-> TRUE, res |-> NoResult, room |-> Headroom(d)]

\* `with self.conn:` left normally: COMMIT.
Commit(s) == [s EXCEPT !.disk = s.db]

\* `with self.conn:` left by an exception: ROLLBACK, and the exception goes on.
Rollback(s) == [s EXCEPT !.db = s.disk, !.ok = FALSE, !.res = NoResult]

\* Run the next call G unless an earlier one has raised.  The state s is
\* evaluated once, as the one element of a set.
AndThen(s, G(_)) == CHOOSE r \in {IF x.ok THEN G(x) ELSE x : x \in {s}} : TRUE

\* A variant of NextSeqNo that numbers the events of all episodes together.
NextSeqNoOfLog(d, episode_id) == Len(d.memory_events) + 1

\* SELECT COALESCE(MAX(seq_no), 0) + 1 FROM memory_events WHERE episode_id = ?
NextSeqNo(d, episode_id) ==
  LET evs == EventsOf(d, episode_id)
  IN SetMax({0} \cup {evs[i].seq_no : i \in 1..Len(evs)}) + 1

KeyIndex(d, idempotency_key) ==
  {i \in 1..Len(d.memory_events) : d.memory_events[i].idempotency_key = idempotency_key}

\* A variant of StoredEvent that reports the stored event as inserted.
StoredEventAsInserted(s, row) ==
  Commit([s EXCEPT !.res = Result(row.event_id, row.episode_id, row.seq_no, TRUE)])

\* The early return of append_event: the stored identifiers, inserted = False.
StoredEvent(s, row) ==
  Commit([s EXCEPT !.res = Result(row.event_id, row.episode_id, row.seq_no, FALSE)])

\* The end of append_event: d2 is the store after the reducer, or FAILED.
Appended(s, d2, event_id, episode_id, seq_no) ==
  IF IsFailed(d2) THEN Rollback(s)
  ELSE Commit([s EXCEPT !.db = d2,
                        !.res = Result(event_id, episode_id, seq_no, TRUE),
                        !.room = Min(s.room, Headroom(d2))])

\* INSERT INTO memory_events, then the reducer if apply.
InsertEvent(s, d1, event_id, episode_id, seq_no, event_type, payload, apply, now) ==
  Appended(s,
           IF apply THEN apply_event(d1, event_id, episode_id, event_type, payload, now)
           ELSE d1,
           event_id, episode_id, seq_no)

NewEvent(s, event_id, episode_id, seq_no, event_type, payload, idempotency_key, apply, now) ==
  InsertEvent(s,
    [s.db EXCEPT !.memory_events =
       Append(@, [event_id |-> event_id, episode_id |-> episode_id,
                  seq_no |-> seq_no, event_type |-> event_type,
                  payload |-> payload, idempotency_key |-> idempotency_key,
                  created_at |-> now]),
            !.unapplied = IF apply THEN @ ELSE @ \cup {event_id}],
    event_id, episode_id, seq_no, event_type, payload, apply, now)

\* The constraints of memory_events that an INSERT can break: idempotency_key
\* UNIQUE, UNIQUE (episode_id, seq_no), episode_id REFERENCES episodes.
BreaksConstraint(d, episode_id, seq_no, idempotency_key) ==
  \/ KeyIndex(d, idempotency_key) # {}
  \/ \E i \in 1..Len(d.memory_events) :
       /\ d.memory_events[i].episode_id = episode_id
       /\ d.memory_events[i].seq_no = seq_no
  \/ ~HasEpisode(d, episode_id)

\* The INSERT of append_event and what follows it, for a seq_no read before:
\* an sqlite3.IntegrityError leaves the block and rolls back.
insert_event(s, episode_id, seq_no, event_type, payload, idempotency_key, apply, now) ==
  IF BreaksConstraint(s.db, episode_id, seq_no, idempotency_key) THEN Rollback(s)
  ELSE NewEvent(s, Len(s.db.memory_events) + 1, episode_id, seq_no, event_type,
                payload, idempotency_key, apply, now)

\* The position of the second connection's append_event.
Idle == [pc |-> "idle", raw |-> 0, seq_no |-> 0]

append_event(s, episode_id, event_type, payload, idempotency_key, apply, now) ==
  IF KeyIndex(s.db, idempotency_key) # {}
  THEN StoredEvent(s, s.db.memory_events[CHOOSE i \in KeyIndex(s.db, idempotency_key) : TRUE])
  ELSE IF ~HasEpisode(s.db, episode_id) THEN Rollback(s)
  ELSE NewEvent(s, Len(s.db.memory_events) + 1, episode_id,
                NextSeqNo(s.db, episode_id), event_type, payload, idempotency_key,
                apply, now)

(***************************************************************************)
(* record_episode.  A payload p has the fields episode_id, user_text,     *)
(* started_at, ended_at, scope_tier, scope_id, artifacts and              *)
(* evidence_refs; NONE (-1 for a time) stands for a key the payload does  *)
(* not have.  An artifact is [artifact_id, artifact_kind, content], an    *)
(* evidence ref [evidence_ref_id, ref_kind, artifact_id, excerpt_text].   *)
(* The content file of an artifact is read back as the content of its     *)
(* row: the payloads give one content to one artifact id.                 *)
(***************************************************************************)
\* payload.get("episode_id") or f"ep_{uuid.uuid4().hex[:16]}"
EpisodeIdOf(p, uuid_n) ==
  IF p.episode_id # NONE THEN p.episode_id ELSE "ep_u" \o ToString(uuid_n + 1)

\* payload.get("started_at") or now_iso()
TimeOr(t, now) == IF t # -1 THEN t ELSE now

\* sha256 of the canonical JSON of the episode's fields.
EpisodeHash(p, episode_id, now) ==
  "ep(" \o episode_id \o "," \o p.user_text \o "," \o p.scope_tier \o ","
    \o p.scope_id \o "," \o ToString(TimeOr(p.started_at, now)) \o ","
    \o ToString(TimeOr(p.ended_at, now)) \o ")"

extract_evidence_excerpt(d, episode_id, ref_kind, artifact_id) ==
  IF ref_kind = "user_span"
  THEN IF HasEpisode(d, episode_id) THEN EpisodeRow(d, episode_id).user_text ELSE "empty"
  ELSE IF artifact_id # NONE /\ HasArtifact(d, artifact_id)
  THEN (CHOOSE a \in d.artifacts : a.artifact_id = artifact_id).content
  ELSE "empty"

\* INSERT OR IGNORE INTO artifacts: an existing id or a CHECK failure skips the row.
InsertArtifact(s, episode_id, art) ==
  IF HasArtifact(s.db, art.artifact_id) \/ art.artifact_kind \notin ARTIFACT_KINDS
  THEN s
  ELSE [s EXCEPT !.db.artifacts =
          @ \cup {[artifact_id |-> art.artifact_id, episode_id |-> episode_id,
                   artifact_kind |-> art.artifact_kind, content |-> art.content]}]

RecordArtifact(s, episode_id, art, now) ==
  append_event(InsertArtifact(s, episode_id, art), episode_id, "artifact_recorded",
    [artifact_id |-> art.artifact_id, artifact_kind |-> art.artifact_kind,
     content_hash |-> art.content],
    "artifact_recorded:" \o episode_id \o ":" \o art.artifact_id \o ":" \o art.content,
    TRUE, now)

RECURSIVE RecordArtifacts(_, _, _, _)
RecordArtifacts(s, episode_id, arts, now) ==
  IF arts = <<>> \/ ~s.ok THEN s
  ELSE RecordArtifacts(RecordArtifact(s, episode_id, Head(arts), now),
                       episode_id, Tail(arts), now)

\* ref.get("excerpt_text"), or what extract_evidence_excerpt finds.
ExcerptOf(d, episode_id, ref) ==
  IF ref.excerpt_text # NONE /\ ref.excerpt_text # "empty"
  THEN ref.excerpt_text
  ELSE extract_evidence_excerpt(d, episode_id, ref.ref_kind, ref.artifact_id)

\* sha256_text(excerpt_text or f"{target_id}:{start_offset}:...")
RefHash(ref, excerpt_text) ==
  IF excerpt_text # "empty" THEN excerpt_text
  ELSE (IF ref.artifact_id # NONE THEN ref.artifact_id ELSE "episode")
         \o ":None:None:None:None"

\* INSERT OR IGNORE INTO evidence_refs, then the evidence_ref_recorded event.  An
\* existing id or a CHECK failure skips the row; artifact_id REFERENCES artifacts
\* is not a constraint OR IGNORE skips.
RecordEvidenceRow(s, episode_id, ref, excerpt_text, ref_hash, ignored, now) ==
  IF ~ignored /\ ref.artifact_id # NONE /\ ~HasArtifact(s.db, ref.artifact_id)
  THEN Rollback(s)
  ELSE append_event(
         IF ignored THEN s
         ELSE [s EXCEPT !.db.evidence_refs =
                 @ \cup {[evidence_ref_id |-> ref.evidence_ref_id,
                          episode_id |-> episode_id, artifact_id |-> ref.artifact_id,
                          ref_kind |-> ref.ref_kind, excerpt_text |-> excerpt_text,
                          ref_hash |-> ref_hash, created_at |-> now]}],
         episode_id, "evidence_ref_recorded",
         [evidence_ref_id |-> ref.evidence_ref_id, ref_kind |-> ref.ref_kind,
          ref_hash |-> ref_hash],
         "evidence_ref_recorded:" \o episode_id \o ":" \o ref.evidence_ref_id
           \o ":" \o ref_hash,
         TRUE, now)

RecordEvidenceExcerpt(s, episode_id, ref, excerpt_text, now) ==
  RecordEvidenceRow(s, episode_id, ref, excerpt_text, RefHash(ref, excerpt_text),
                    HasRef(s.db, ref.evidence_ref_id) \/ ref.ref_kind \notin REF_KINDS,
                    now)

RecordEvidenceRef(s, episode_id, ref, now) ==
  RecordEvidenceExcerpt(s, episode_id, ref, ExcerptOf(s.db, episode_id, ref), now)

RECURSIVE RecordEvidenceRefs(_, _, _, _)
RecordEvidenceRefs(s, episode_id, refs, now) ==
  IF refs = <<>> \/ ~s.ok THEN s
  ELSE RecordEvidenceRefs(RecordEvidenceRef(s, episode_id, Head(refs), now),
                          episode_id, Tail(refs), now)

\* INSERT OR IGNORE INTO episodes
InsertEpisode(s, p, episode_id, payload_hash, now) ==
  IF HasEpisode(s.db, episode_id) THEN s
  ELSE [s EXCEPT !.db.episodes =
          @ \cup {[episode_id |-> episode_id, user_text |-> p.user_text,
                   scope_tier |-> p.scope_tier, scope_id |-> p.scope_id,
                   payload_hash |-> payload_hash,
                   started_at |-> TimeOr(p.started_at, now),
                   ended_at |-> TimeOr(p.ended_at, now), created_at |-> now]}]

ConsolidationTriggered(s, episode_id, now) ==
  append_event(s, episode_id, "consolidation_triggered",
    [episode_id |-> episode_id, trigger |-> "post_episode_record"],
    "consolidation_triggered:" \o episode_id, TRUE, now)

\* The end of an outer `with self.conn:`: commit, or roll back what is pending.
EndWith(s) == IF s.ok THEN Commit(s) ELSE Rollback(s)

RecordEpisodeHashed(s, p, episode_id, payload_hash, now) ==
  EndWith(
    AndThen(
      RecordEvidenceRefs(
        RecordArtifacts(
          append_event(InsertEpisode(s, p, episode_id, payload_hash, now),
            episode_id, "episode_recorded",
            [episode_id |-> episode_id, payload_hash |-> payload_hash],
            "episode_recorded:" \o episode_id \o ":" \o payload_hash, TRUE, now),
          episode_id, p.artifacts, now),
        episode_id, p.evidence_refs, now),
      LAMBDA x : ConsolidationTriggered(x, episode_id, now)))

RecordEpisodeAs(s, p, episode_id, now) ==
  RecordEpisodeHashed(s, p, episode_id, EpisodeHash(p, episode_id, now), now)

record_episode(s, p, now, uuid_n) ==
  RecordEpisodeAs(s, p, EpisodeIdOf(p, uuid_n), now)

(***************************************************************************)
(* Consolidation.                                                          *)
(***************************************************************************)
\* get_episode_scope / metadata.get("scope_tier", "repo").
ScopeTierOf(e) == IF e.scope_tier # NONE THEN e.scope_tier ELSE "repo"

ScopeIdOf(e) == IF e.scope_id # NONE THEN e.scope_id ELSE "default"

\* The evidence rows of an episode, ORDER BY created_at, evidence_ref_id.
EvidenceRows(d, episode_id) ==
  SortedSeq({r \in d.evidence_refs : r.episode_id = episode_id},
            LAMBDA a, b : \/ a.created_at < b.created_at
                          \/ /\ a.created_at = b.created_at
                             /\ NameRank(a.evidence_ref_id) < NameRank(b.evidence_ref_id))

\* The kind generate_candidates gives a statement by the kind of its evidence.
CandidateKind(ref_kind, t) ==
  CASE ref_kind = "user_span" ->
         IF ContainsAny(t, {<<"prefer">>, <<"i", "like">>, <<"please", "use">>,
                            <<"verbosity">>})
         THEN "preference"
         ELSE IF ContainsAny(t, {<<"must">>, <<"do", "not">>, <<"don't">>, <<"never">>,
                                 <<"always">>, <<"only">>})
         THEN "constraint"
         ELSE IF ContainsAny(t, {<<"i", "will">>, <<"i'll">>, <<"we", "will">>,
                                 <<"plan", "to">>, <<"going", "to">>})
         THEN "commitment"
         ELSE "fact"
    [] ref_kind = "tool_output" ->
         IF contains_failure_signal(t) THEN "negative_result"
         ELSE IF ContainsAny(t, {<<"run", "*">>, <<"command">>, <<"steps">>,
                                 <<"procedure">>, <<"workflow">>})
         THEN "tactic"
         ELSE "fact"
    [] ref_kind = "doc_span" ->
         IF ContainsAny(t, {<<"run", "*">>, <<"steps">>, <<"procedure">>, <<"how", "to">>})
         THEN "tactic"
         ELSE "fact"
    [] OTHER -> "fact"

generate_candidates(episode_id, scope_tier, scope_id, ev_rows) ==
  LET cand(idx) ==
        LET row == ev_rows[idx + 1]
            kind == CandidateKind(row.ref_kind, row.excerpt_text)
        IN [candidate_id |-> CandidateId(episode_id, idx, kind, row.excerpt_text),
            idx |-> idx, kind |-> kind, statement |-> row.excerpt_text,
            scope_tier |-> scope_tier, scope_id |-> scope_id,
            topic_key |-> topic_key(row.excerpt_text),
            evidence_ref_ids |-> <<row.evidence_ref_id>>]
      kept == SelectSeq([i \in 1..Len(ev_rows) |-> i - 1],
                        LAMBDA idx : TEXT_WORDS[ev_rows[idx + 1].excerpt_text] # <<>>)
  IN [i \in 1..Len(kept) |-> cand(kept[i])]

\* sorted(candidates, key = (KIND_PRIORITY, statement.lower(), scope, candidate_id));
\* the index of the evidence row stands for the order of the candidate ids.
SortCandidates(cands) ==
  SortSeq(cands,
          LAMBDA a, b :
            \/ KIND_PRIORITY[a.kind] < KIND_PRIORITY[b.kind]
            \/ /\ KIND_PRIORITY[a.kind] = KIND_PRIORITY[b.kind]
               /\ \/ TextRank(a.statement) < TextRank(b.statement)
                  \/ /\ TextRank(a.statement) = TextRank(b.statement)
                     /\ a.idx < b.idx)

validate_evidence_invariant(d, cand) ==
  LET kinds == {r.ref_kind : r \in {x \in d.evidence_refs :
                                      x.evidence_ref_id \in Range(cand.evidence_ref_ids)}}
  IN CASE cand.evidence_ref_ids = <<>> -> "missing_evidence"
       [] cand.kind \in NORMATIVE_KINDS /\ "user_span" \notin kinds ->
            "normative_requires_user_span"
       [] cand.kind = "tactic" /\ {"tool_output", "doc_span"} \cap kinds = {} ->
            "tactic_requires_tool_or_doc"
       [] cand.kind = "negative_result" /\ "tool_output" \notin kinds ->
            "negative_result_requires_tool_output"
       [] cand.kind = "negative_result" /\ ~contains_failure_signal(cand.statement) ->
            "negative_result_requires_failure_signal"
       [] cand.kind = "fact" /\ kinds = {} -> "fact_requires_anchor"
       [] OTHER -> "ok"

\* The cards a candidate is compared with: same kind and scope, active or needs_recheck.
ScopeCards(d, cand) ==
  {c \in d.cards : /\ c.kind = cand.kind /\ c.scope_tier = cand.scope_tier
                   /\ c.scope_id = cand.scope_id /\ c.status \in LiveStatuses}

\* The rows as idx_cards_scope_kind gives them: by status, then by rowid.
IndexOrder(a, b) ==
  \/ a.status = "active" /\ b.status # "active"
  \/ a.status = b.status /\ a.rowid < b.rowid

\* find_best_similarity_match: the first row of the greatest lex + cos; NoMatch if none.
NoMatch == [card_id |-> NONE, lexical |-> 0, cosine |-> 0]

MatchScore(cand, c) ==
  jaccard_similarity(cand.statement, c.statement)
    + cosine_similarity_text(cand.statement, c.statement)

BestIndex(cand, rows) ==
  CHOOSE i \in 1..Len(rows) :
    /\ \A j \in 1..Len(rows) : MatchScore(cand, rows[j]) <= MatchScore(cand, rows[i])
    /\ \A j \in 1..(i - 1) : MatchScore(cand, rows[j]) < MatchScore(cand, rows[i])

MatchOf(cand, c) ==
  [card_id |-> c.card_id,
   lexical |-> jaccard_similarity(cand.statement, c.statement),
   cosine |-> cosine_similarity_text(cand.statement, c.statement)]

BestOf(cand, rows) ==
  IF rows = <<>> THEN NoMatch ELSE MatchOf(cand, rows[BestIndex(cand, rows)])

find_best_similarity_match(d, cand) ==
  BestOf(cand, SortedSeq(ScopeCards(d, cand), IndexOrder))

\* ORDER BY updated_event_id DESC, card_id ASC
RecentFirst(a, b) ==
  \/ a.updated_event_id > b.updated_event_id
  \/ a.updated_event_id = b.updated_event_id /\ CardKey(a) < CardKey(b)

FirstCardId(rows) == IF rows = <<>> THEN NONE ELSE rows[1].card_id

find_exact_merge_target(d, cand) ==
  FirstCardId(SortedSeq({c \in ScopeCards(d, cand) :
                           TEXT_LOWER[c.statement] = TEXT_LOWER[cand.statement]},
                        RecentFirst))

find_supersede_target(d, cand) ==
  IF cand.kind \notin NORMATIVE_KINDS THEN NONE
  ELSE FirstCardId(SortedSeq({c \in ScopeCards(d, cand) : c.topic_key = cand.topic_key},
                             RecentFirst))

append_reject(s, episode_id, cand, reason, details, now) ==
  append_event(s, episode_id, "card_rejected",
    [candidate_id |-> cand.candidate_id, kind |-> cand.kind,
     statement |-> cand.statement, reason_code |-> reason, details |-> details],
    "card_rejected:" \o episode_id \o ":" \o cand.candidate_id \o ":" \o reason,
    TRUE, now)

\* A variant of count_episode_admitted_by_kind that counts the admissions of the
\* run only: none when the run starts.
count_admitted_in_run(d, episode_id) == [k \in Range(KINDS) |-> 0]

count_episode_admitted_by_kind(d, episode_id) ==
  [k \in Range(KINDS) |->
     Cardinality({i \in 1..Len(d.memory_events) :
                    LET e == d.memory_events[i]
                    IN /\ e.episode_id = episode_id
                       /\ e.event_type = "card_admitted"
                       /\ "card" \in DOMAIN e.payload
                       /\ Get(e.payload.card, "kind") = k})]

\* A variant of BudgetExceeded that lets a card in when the budget is just used up.
BudgetExceededAbove(count, cap) == count > cap

\* Whether the budget of the candidate's (scope_tier, kind) is used up.
BudgetExceeded(count, cap) == count >= cap

CardAdmitted(s, episode_id, cand, supersede_target, card_id, now) ==
  append_event(s, episode_id, "card_admitted",
    [candidate_id |-> cand.candidate_id, reason_code |-> "admitted",
     card |-> [card_id |-> card_id, kind |-> cand.kind, statement |-> cand.statement,
               scope_tier |-> cand.scope_tier, scope_id |-> cand.scope_id,
               topic_key |-> cand.topic_key, tags |-> <<>>, status |-> "active",
               supersedes_card_id |-> supersede_target,
               evidence_ref_ids |-> cand.evidence_ref_ids]],
    "card_admitted:" \o episode_id \o ":" \o cand.candidate_id \o ":" \o card_id,
    TRUE, now)

\* After card_admitted: card_superseded for the target, if there is one.
CardSuperseded(s, episode_id, cand, supersede_target, card_id, now) ==
  IF supersede_target = NONE \/ ~s.ok THEN s
  ELSE append_event(s, episode_id, "card_superseded",
         [candidate_id |-> cand.candidate_id, old_card_id |-> supersede_target,
          new_card_id |-> card_id,
          from_status |-> IF HasCard(s.db, supersede_target)
                          THEN CardRow(s.db, supersede_target).status ELSE "active",
          reason_code |-> "normative_user_supersession"],
         "card_superseded:" \o episode_id \o ":" \o supersede_target \o ":" \o card_id,
         TRUE, now)

AdmitAs(s, episode_id, cand, supersede_target, card_id, now) ==
  CardSuperseded(CardAdmitted(s, episode_id, cand, supersede_target, card_id, now),
                 episode_id, cand, supersede_target, card_id, now)

\* The admission of a candidate: card_admitted, then card_superseded for its target.
AdmitCandidate(s, episode_id, cand, now) ==
  AdmitAs(s, episode_id, cand, find_supersede_target(s.db, cand),
          CardId(cand.kind, cand.scope_tier, cand.scope_id, cand.statement), now)

CardMerged(s, episode_id, cand, merged_target, now) ==
  append_event(s, episode_id, "card_merged",
    [candidate_id |-> cand.candidate_id, target_card_id |-> merged_target,
     evidence_ref_ids |-> cand.evidence_ref_ids,
     reason_code |-> "exact_statement_match"],
    "card_merged:" \o episode_id \o ":" \o cand.candidate_id \o ":" \o merged_target,
    TRUE, now)

\* The outcome of one turn of the loop: the connection and whether a card was admitted.
Turn(s, admitted) == [s |-> s, admitted |-> admitted]

MergeOrAdmit(s, episode_id, cand, merged_target, now) ==
  IF merged_target # NONE THEN Turn(CardMerged(s, episode_id, cand, merged_target, now), 0)
  ELSE Turn(AdmitCandidate(s, episode_id, cand, now), 1)

MatchDetails(best) ==
  [matched_card_id |-> best.card_id, lexical |-> best.lexical, cosine |-> best.cosine]

\* Decide with a novelty gate that rejects only when both similarities reach
\* their thresholds.
Decide_NoveltyNeedsBoth(s, episode_id, cand, reason, best, admitted_by_kind, admitted_total, now) ==
  CASE reason # "ok" ->
         Turn(append_reject(s, episode_id, cand, "missing_required_evidence",
                            [invariant_reason |-> reason], now), 0)
    [] best.card_id # NONE /\ best.lexical >= 800 /\ best.cosine >= 920 ->
         Turn(append_reject(s, episode_id, cand, "duplicate_of_existing_card",
                            MatchDetails(best), now), 0)
    [] best.card_id # NONE /\ best.lexical >= 650 /\ best.cosine >= 780 ->
         Turn(append_reject(s, episode_id, cand, "novelty_below_threshold",
                            MatchDetails(best), now), 0)
    [] admitted_by_kind[cand.kind] >= EPISODE_KIND_CAPS[cand.kind] ->
         Turn(append_reject(s, episode_id, cand, "episode_kind_cap_exceeded",
                            [kind_cap |-> EPISODE_KIND_CAPS[cand.kind]], now), 0)
    [] admitted_total >= EPISODE_SOFT_CAP ->
         Turn(append_reject(s, episode_id, cand, "episode_soft_cap_exceeded",
                            [soft_cap |-> EPISODE_SOFT_CAP], now), 0)
    [] BudgetExceeded(ActiveScopeCount(s.db, cand.scope_tier, cand.kind),
                      BUDGET_CAPS[cand.scope_tier][cand.kind]) ->
         Turn(append_reject(s, episode_id, cand, "scope_kind_budget_exceeded",
                            [budget |-> BUDGET_CAPS[cand.scope_tier][cand.kind]], now), 0)
    [] OTHER ->
         MergeOrAdmit(s, episode_id, cand, find_exact_merge_target(s.db, cand), now)

\* The gates of consolidate_episode, in the order of the code.
Decide(s, episode_id, cand, reason, best, admitted_by_kind, admitted_total, now) ==
  CASE reason # "ok" ->
         Turn(append_reject(s, episode_id, cand, "missing_required_evidence",
                            [invariant_reason |-> reason], now), 0)
    [] best.card_id # NONE /\ best.lexical >= 800 /\ best.cosine >= 920 ->
         Turn(append_reject(s, episode_id, cand, "duplicate_of_existing_card",
                            MatchDetails(best), now), 0)
    [] best.card_id # NONE /\ (best.lexical >= 650 \/ best.cosine >= 780) ->
         Turn(append_reject(s, episode_id, cand, "novelty_below_threshold",
                            MatchDetails(best), now), 0)
    [] admitted_by_kind[cand.kind] >= EPISODE_KIND_CAPS[cand.kind] ->
         Turn(append_reject(s, episode_id, cand, "episode_kind_cap_exceeded",
                            [kind_cap |-> EPISODE_KIND_CAPS[cand.kind]], now), 0)
    [] admitted_total >= EPISODE_SOFT_CAP ->
         Turn(append_reject(s, episode_id, cand, "episode_soft_cap_exceeded",
                            [soft_cap |-> EPISODE_SOFT_CAP], now), 0)
    [] BudgetExceeded(ActiveScopeCount(s.db, cand.scope_tier, cand.kind),
                      BUDGET_CAPS[cand.scope_tier][cand.kind]) ->
         Turn(append_reject(s, episode_id, cand, "scope_kind_budget_exceeded",
                            [budget |-> BUDGET_CAPS[cand.scope_tier][cand.kind]], now), 0)
    [] OTHER ->
         MergeOrAdmit(s, episode_id, cand, find_exact_merge_target(s.db, cand), now)

\* After candidate_proposed.
Proposed(s, episode_id, cand, admitted_by_kind, admitted_total, now) ==
  IF ~s.ok THEN Turn(s, 0)
  ELSE Decide(s, episode_id, cand, validate_evidence_invariant(s.db, cand),
              find_best_similarity_match(s.db, cand), admitted_by_kind,
              admitted_total, now)

\* One turn of the loop of consolidate_episode.
ConsolidateCandidate(s, episode_id, cand, admitted_by_kind, admitted_total, now) ==
  Proposed(append_event(s, episode_id, "candidate_proposed",
             [candidate_id |-> cand.candidate_id, kind |-> cand.kind,
              statement |-> cand.statement, scope_tier |-> cand.scope_tier,
              scope_id |-> cand.scope_id, topic_key |-> cand.topic_key,
              evidence_ref_ids |-> cand.evidence_ref_ids],
             "candidate_proposed:" \o episode_id \o ":" \o cand.candidate_id,
             TRUE, now),
           episode_id, cand, admitted_by_kind, admitted_total, now)

RECURSIVE ConsolidateLoop(_, _, _, _, _, _)
RECURSIVE ConsolidateRest(_, _, _, _, _, _)
ConsolidateRest(r, episode_id, cands, admitted_by_kind, admitted_total, now) ==
  ConsolidateLoop(r.s, episode_id, Tail(cands),
    [admitted_by_kind EXCEPT ![Head(cands).kind] = @ + r.admitted],
    admitted_total + r.admitted, now)

ConsolidateLoop(s, episode_id, cands, admitted_by_kind, admitted_total, now) ==
  IF cands = <<>> \/ ~s.ok THEN s
  ELSE ConsolidateRest(
         ConsolidateCandidate(s, episode_id, Head(cands), admitted_by_kind,
                              admitted_total, now),
         episode_id, cands, admitted_by_kind, admitted_total, now)

\* The last statement of consolidate_episode: refresh_ledger, left uncommitted.
LedgerRefreshed(s, episode_id, now) ==
  IF s.ok THEN [s EXCEPT !.db = refresh_ledger(s.db, episode_id, now)] ELSE s

ConsolidateFrom(s, episode_id, cands, admitted_by_kind, now) ==
  LedgerRefreshed(
    ConsolidateLoop(s, episode_id, cands, admitted_by_kind,
                    SetSum(Range(KINDS), LAMBDA k : admitted_by_kind[k]), now),
    episode_id, now)

EpisodeCandidates(d, episode_id, e) ==
  SortCandidates(generate_candidates(episode_id, ScopeTierOf(e), ScopeIdOf(e),
                                     EvidenceRows(d, episode_id)))

\* consolidate_episode raises, and nothing changes, when the episode is unknown.
consolidate_episode(s, episode_id, now) ==
  IF ~HasEpisode(s.db, episode_id) THEN [s EXCEPT !.ok = FALSE]
  ELSE ConsolidateFrom(s, episode_id,
         EpisodeCandidates(s.db, episode_id, EpisodeRow(s.db, episode_id)),
         count_episode_admitted_by_kind(s.db, episode_id), now)

(***************************************************************************)
(* Outcomes and disputes.                                                  *)
(***************************************************************************)
RECURSIVE Join(_)
\* The names of a sequence, one after the other.
Join(names) == IF names = <<>> THEN "" ELSE Head(names) \o "," \o Join(Tail(names))

\* sorted(evidence_ref_ids)
SortedNames(names) == SortSeq(names, LAMBDA a, b : NameRank(a) < NameRank(b))

\* A variant of record_outcome whose idempotency key is made of the position of
\* the event in the log.
record_outcome_by_position(s, episode_id, outcome_type, evidence_ref_ids, metadata, now) ==
  IF outcome_type \notin TERMINAL_OUTCOMES THEN [s EXCEPT !.ok = FALSE]
  ELSE append_event(s, episode_id, "outcome_recorded",
         [outcome_type |-> outcome_type, evidence_ref_ids |-> evidence_ref_ids,
          metadata_json |-> metadata],
         "outcome_recorded:" \o episode_id \o ":" \o ToString(Len(s.db.memory_events)),
         TRUE, now)

\* record_outcome raises, and nothing changes, when the outcome type is not terminal.
record_outcome(s, episode_id, outcome_type, evidence_ref_ids, metadata, now) ==
  IF outcome_type \notin TERMINAL_OUTCOMES THEN [s EXCEPT !.ok = FALSE]
  ELSE append_event(s, episode_id, "outcome_recorded",
         [outcome_type |-> outcome_type, evidence_ref_ids |-> evidence_ref_ids,
          metadata_json |-> metadata],
         "outcome_recorded:" \o episode_id \o ":" \o outcome_type \o ":"
           \o Join(SortedNames(evidence_ref_ids)) \o ":" \o metadata,
         TRUE, now)

\* The weights are REAL columns and Python floats: IEEE 754 doubles.  The double
\* [t, e] is the number t / 10 + e * u for the unit u = 1 / (5 * 2^54): the
\* double of 1.0 is 1 exactly, the double nearest 0.7 is 0.7 - 4u and the double
\* nearest 0.4 is 0.4 + 2u.
WeightDouble(tenths) ==
  [t |-> tenths, e |-> CASE tenths = 7 -> -4 [] tenths = 4 -> 2 [] OTHER -> 0]

\* Whether the double is at least the number of tenths.
FloatGeq(x, tenths) == x.t > tenths \/ (x.t = tenths /\ x.e >= 0)

\* Whether the double is at most the number of tenths.
FloatLeq(x, tenths) == x.t < tenths \/ (x.t = tenths /\ x.e <= 0)

\* The distance, in units u, between neighbouring doubles around t / 10 + e * u,
\* for doubles from 0.25 up to 8: 2^-54 = 5u below 0.5, twice that in [0.5, 1) ...
UlpUnits(t, e) ==
  IF FloatGeq([t |-> t, e |-> e], 40) THEN 80
  ELSE IF FloatGeq([t |-> t, e |-> e], 20) THEN 40
  ELSE IF FloatGeq([t |-> t, e |-> e], 10) THEN 20
  ELSE IF FloatGeq([t |-> t, e |-> e], 5) THEN 10
  ELSE 5

\* 2^53 modulo twice the distance ulp: t / 10 is t * 2^53 units u.
Pow53Mod(ulp) == IF ulp = 5 THEN 2 ELSE IF ulp = 10 THEN 12 ELSE 32

\* The double nearest t / 10 + e * u, ties to the even one; r is the remainder of
\* the number, in units u, modulo twice the distance ulp.
RoundToDouble(t, e, ulp, r) ==
  [t |-> t,
   e |-> IF 2 * (r % ulp) < ulp THEN e - (r % ulp)
         ELSE IF 2 * (r % ulp) > ulp THEN e + ulp - (r % ulp)
         ELSE IF r \div ulp = 0 THEN e - (r % ulp) ELSE e + ulp - (r % ulp)]

RoundNear(t, e, ulp) ==
  RoundToDouble(t, e, ulp, (t * Pow53Mod(ulp) + e) % (2 * ulp))

\* a + b of two doubles: the exact sum, rounded to a double.
FloatAdd(a, b) ==
  IF a.t + b.t = 0 THEN [t |-> 0, e |-> 0]
  ELSE RoundNear(a.t + b.t, a.e + b.e, UlpUnits(a.t + b.t, a.e + b.e))

RECURSIVE FloatSum(_, _)
FloatSum(acc, ws) ==
  IF ws = <<>> THEN acc
  ELSE FloatSum(FloatAdd(acc, WeightDouble(Head(ws))), Tail(ws))

\* The weights of the card's disputes in the order of the table scan, which is
\* the order in which the rows were written.
DisputeWeights(d, card_id) ==
  LET rows == SortedSeq({x \in d.disputes : x.card_id = card_id},
                        LAMBDA a, b : a.event_id < b.event_id)
  IN [i \in 1..Len(rows) |-> rows[i].weight]

\* SELECT COALESCE(SUM(weight), 0.0) FROM disputes WHERE card_id = ?
DisputeMass(d, card_id) ==
  FloatSum([t |-> 0, e |-> 0], DisputeWeights(d, card_id))

\* The second half of record_dispute: the threshold (mass and threshold in tenths).
DisputeThreshold(s, episode_id, card_id, card, mass, threshold, now) ==
  IF FloatGeq(mass, threshold) /\ card.status = "active"
  THEN [append_event(s, episode_id, "card_status_changed",
          [card_id |-> card_id, from_status |-> "active",
           to_status |-> "needs_recheck",
           reason_code |-> "dispute_threshold_exceeded",
           dispute_mass |-> mass, threshold |-> threshold],
          "card_status_changed:" \o card_id \o ":needs_recheck:" \o ToString(threshold),
          TRUE, now)
        EXCEPT !.res.changed = TRUE]
  ELSE s

Disputed(s, episode_id, card_id, now) ==
  IF ~s.ok \/ ~HasCard(s.db, card_id) THEN s
  ELSE DisputeThreshold(s, episode_id, card_id, CardRow(s.db, card_id),
                        DisputeMass(s.db, card_id),
                        DISPUTE_THRESHOLDS[CardRow(s.db, card_id).scope_tier], now)

\* record_dispute raises, and nothing changes, when the evidence ref is unknown.
record_dispute(s, episode_id, card_id, evidence_ref_id, now) ==
  IF ~HasRef(s.db, evidence_ref_id) THEN [s EXCEPT !.ok = FALSE]
  ELSE Disputed(
         append_event(s, episode_id, "dispute_recorded",
           [dispute_id |-> "disp:" \o card_id \o ":" \o evidence_ref_id,
            card_id |-> card_id, evidence_ref_id |-> evidence_ref_id,
            weight |-> DISPUTE_WEIGHTS[RefRow(s.db, evidence_ref_id).ref_kind]],
           "dispute_recorded:" \o card_id \o ":" \o evidence_ref_id, TRUE, now),
         episode_id, card_id, now)

(***************************************************************************)
(* Daily dedup.                                                            *)
(***************************************************************************)
\* card_evidence_ids: the evidence of a card, ORDER BY evidence_ref_id.
card_evidence_ids(d, card_id) ==
  SortedNames(SetToSeq({x.evidence_ref_id : x \in {y \in d.card_evidence_refs :
                                                     y.card_id = card_id}}))

EvidenceCount(d, card_id) ==
  Cardinality({x \in d.card_evidence_refs : x.card_id = card_id})

\* ORDER BY evidence_count DESC, updated_event_id DESC, card_id ASC
DedupOrder(d, a, b) ==
  \/ EvidenceCount(d, a.card_id) > EvidenceCount(d, b.card_id)
  \/ /\ EvidenceCount(d, a.card_id) = EvidenceCount(d, b.card_id)
     /\ RecentFirst(a, b)

IsDuplicate(a, b) ==
  /\ jaccard_similarity(a.statement, b.statement) >= 800
  /\ cosine_similarity_text(a.statement, b.statement) >= 920

\* The rows the SELECT of a group asks for: its live cards, the winner first.
DedupRows(d, g) ==
  SortedSeq({c \in d.cards : /\ c.kind = g[1] /\ c.scope_tier = g[2]
                             /\ c.scope_id = g[3] /\ c.status \in LiveStatuses},
            LAMBDA a, b : DedupOrder(d, a, b))

\* run_dedup_daily prepares the SELECT of the rows for the first group.  Its
\* ORDER BY names card_id without a table, and both joined tables, cards and
\* card_evidence_refs, have that column: sqlite3 raises OperationalError
\* (ambiguous column name: card_id).  Nothing is written before it, nothing
\* catches it, and the loop over the rows is never entered.
DedupRowsRaise(s) == [s EXCEPT !.ok = FALSE, !.res = NoResult]

\* The kinds in the order of their names.
KIND_ORDER ==
  <<"commitment", "constraint", "fact", "negative_result", "preference", "tactic">>

\* GROUP BY kind, scope_tier, scope_id HAVING n > 1, in the order of the groups.
DedupGroupList(d) ==
  SortedSeq({<<c.kind, c.scope_tier, c.scope_id>> :
               c \in {x \in d.cards :
                        /\ x.status \in LiveStatuses
                        /\ \E y \in d.cards :
                             /\ y.card_id # x.card_id /\ y.status \in LiveStatuses
                             /\ y.kind = x.kind /\ y.scope_tier = x.scope_tier
                             /\ y.scope_id = x.scope_id}},
            LAMBDA a, b :
              \/ PositionIn(KIND_ORDER, a[1]) < PositionIn(KIND_ORDER, b[1])
              \/ /\ a[1] = b[1]
                 /\ \/ NameRank(a[2]) < NameRank(b[2])
                    \/ a[2] = b[2] /\ NameRank(a[3]) < NameRank(b[3]))

run_dedup_daily(s, now) == IF DedupGroupList(s.db) = <<>> THEN s ELSE DedupRowsRaise(s)

(***************************************************************************)
(* Retrieval and packing.  Scores are integers: the components in         *)
(* thousandths, score_total in units of 1e-5.  The pseudo-embedding is a  *)
(* vector of token counts (no two tokens of the texts share a bucket), so *)
(* the cosine of two embeddings is cosine_similarity_text.                *)
(***************************************************************************)
UtilityOf(d, card_id) ==
  IF \E u \in d.utility_stats : u.card_id = card_id
  THEN CHOOSE u \in d.utility_stats : u.card_id = card_id
  ELSE [card_id |-> card_id, wins |-> 0, losses |-> 0, reuse |-> 0,
        updated_event_id |-> 0]

\* SELECT MAX(e.created_at) FROM exposures e WHERE e.card_id = ?; -1 when none.
LastExposed(d, card_id) ==
  SetMax({-1} \cup {e.created_at : e \in {x \in d.exposures : x.card_id = card_id}})

\* The active cards archive_hygiene_pass archives: no dispute mass, no utility,
\* exposed, and not since the cutoff.  last_exposed is the created_at of an
\* event, the text 'YYYY-MM-DD HH:MM:SS' of CURRENT_TIMESTAMP, and the cutoff
\* the text 'YYYY-MM-DDTHH:MM:SSZ': `last_exposed > cutoff` compares the two
\* dates, and on one date the space sorts before the T.  The clock of the model
\* counts dates.
IsStale(d, c, u, now) ==
  /\ c.status = "active"
  /\ FloatLeq(DisputeMass(d, c.card_id), 0)
  /\ 10 * (u.wins - u.losses) + u.reuse <= 0
  /\ LastExposed(d, c.card_id) # -1
  /\ LastExposed(d, c.card_id) <= now - THRESHOLD_DAYS

RECURSIVE ArchiveCards(_, _, _, _)
ArchiveCards(s, episode_id, rows, now) ==
  IF rows = <<>> \/ ~s.ok THEN s
  ELSE ArchiveCards(
         append_event(s, episode_id, "card_archived",
           [card_id |-> Head(rows).card_id, reason_code |-> "archive_hygiene_low_signal"],
           "archive_hygiene:" \o Head(rows).card_id, TRUE, now),
         episode_id, Tail(rows), now)

\* The rows that pass the tests of the loop: each of them is counted in the
\* number archive_hygiene_pass returns.
StaleRows(d, now) ==
  SortedSeq({c \in d.cards : IsStale(d, c, UtilityOf(d, c.card_id), now)},
            LAMBDA a, b : a.rowid < b.rowid)

archive_hygiene_pass(s, episode_id, now) ==
  ArchiveCards(s, episode_id, StaleRows(s.db, now), now)

TIER_RANK == [repo |-> 3, domain |-> 2, global |-> 1]

scope_score(desired_tier, desired_scope_id, card_tier, card_scope_id) ==
  CASE desired_tier = card_tier /\ desired_scope_id = card_scope_id -> 1000
    [] TIER_RANK[card_tier] > TIER_RANK[desired_tier] -> 200
    [] card_tier = desired_tier -> 800
    [] card_tier = "global" -> 600
    [] card_tier = "domain" -> 700
    [] OTHER -> 500

kind_prior(kind) ==
  [constraint |-> 1000, commitment |-> 900, preference |-> 800,
   negative_result |-> 850, tactic |-> 800, fact |-> 750][kind]

status_weight(status, mode) ==
  IF mode = "auto_pack"
  THEN [active |-> 1000, needs_recheck |-> 350, deprecated |-> 150,
        archived |-> 100][status]
  ELSE [active |-> 1000, needs_recheck |-> 800, deprecated |-> 650,
        archived |-> 600][status]

\* ((wins - losses) / max(1, wins + losses)) + min(1.0, reuse / 10.0), tactics only.
UtilityScore(c, u) ==
  IF c.kind # "tactic" THEN 0
  ELSE (1000 * (u.wins - u.losses)) \div Max(1, u.wins + u.losses)
         + Min(1000, 100 * u.reuse)

WeightedScore(lexical, semantic, scope, prior, truth, utility, recency) ==
  35 * lexical + 25 * semantic + 15 * scope + 10 * prior + 10 * truth
    + 5 * utility + 2 * recency

ScoreTotal(d, query, tier, scope_id, mode, c, max_event_id) ==
  IF mode = "auto_pack" /\ c.status = "needs_recheck"
  THEN (35 * WeightedScore(jaccard_similarity(query, c.statement),
                           cosine_similarity_text(query, c.statement),
                           scope_score(tier, scope_id, c.scope_tier, c.scope_id),
                           kind_prior(c.kind), status_weight(c.status, mode),
                           UtilityScore(c, UtilityOf(d, c.card_id)),
                           (1000 * c.updated_event_id) \div max_event_id)) \div 100
  ELSE WeightedScore(jaccard_similarity(query, c.statement),
                     cosine_similarity_text(query, c.statement),
                     scope_score(tier, scope_id, c.scope_tier, c.scope_id),
                     kind_prior(c.kind), status_weight(c.status, mode),
                     UtilityScore(c, UtilityOf(d, c.card_id)),
                     (1000 * c.updated_event_id) \div max_event_id)

Scored(d, query, tier, scope_id, mode, c, max_event_id) ==
  [card_id |-> c.card_id, kind |-> c.kind, statement |-> c.statement,
   scope_tier |-> c.scope_tier, scope_id |-> c.scope_id, topic_key |-> c.topic_key,
   status |-> c.status, updated_event_id |-> c.updated_event_id,
   score_total |-> ScoreTotal(d, query, tier, scope_id, mode, c, max_event_id)]

\* sort key (-score_total, KIND_PRIORITY, -updated_event_id, card_id)
RankOrder(a, b) ==
  \/ a.score_total > b.score_total
  \/ /\ a.score_total = b.score_total
     /\ \/ KIND_PRIORITY[a.kind] < KIND_PRIORITY[b.kind]
        \/ /\ KIND_PRIORITY[a.kind] = KIND_PRIORITY[b.kind]
           /\ RecentFirst(a, b)

\* out[:limit]
FirstOf(seq, n) == SubSeq(seq, 1, Min(n, Len(seq)))

RetrieveIn(d, query, tier, scope_id, include_archived, mode) ==
  SortedSeq({Scored(d, query, tier, scope_id, mode, c, Max(1, Len(d.memory_events)))
             : c \in {x \in d.cards : include_archived \/ mode # "auto_pack"
                                        \/ x.status \in LiveStatuses}},
            RankOrder)

\* A variant of retrieve_cards that ranks the cards of every status on every
\* channel.
retrieve_cards_of_every_status(d, query, episode_id, include_archived, limit, mode) ==
  FirstOf(IF HasEpisode(d, episode_id)
          THEN RetrieveIn(d, query, ScopeTierOf(EpisodeRow(d, episode_id)),
                          ScopeIdOf(EpisodeRow(d, episode_id)), TRUE, mode)
          ELSE RetrieveIn(d, query, "repo", "default", TRUE, mode),
          limit)

retrieve_cards(d, query, episode_id, include_archived, limit, mode) ==
  FirstOf(IF HasEpisode(d, episode_id)
          THEN RetrieveIn(d, query, ScopeTierOf(EpisodeRow(d, episode_id)),
                          ScopeIdOf(EpisodeRow(d, episode_id)), include_archived, mode)
          ELSE RetrieveIn(d, query, "repo", "default", include_archived, mode),
          limit)

group_for_kind(kind) ==
  CASE kind \in {"constraint", "commitment", "preference"} -> "constraints_commitments"
    [] kind = "negative_result" -> "negative_result"
    [] kind = "tactic" -> "tactic"
    [] OTHER -> "fact"

\* slot_counts[group] and topic_counts[topic] of the cards selected so far.
SlotCount(selected, group) ==
  Cardinality({i \in 1..Len(selected) : group_for_kind(selected[i].kind) = group})

TopicCount(selected, topic) ==
  Cardinality({i \in 1..Len(selected) : selected[i].topic_key = topic})

has_recent_failure(d, episode_id) ==
  \E o \in d.outcomes : o.episode_id = episode_id /\ o.outcome_type = "tool_failure"

\* The first pass of build_pack: after a tool_failure, the best negative_result.
FailureFirst(d, episode_id, ranked) ==
  IF has_recent_failure(d, episode_id)
     /\ \E i \in 1..Len(ranked) : ranked[i].kind = "negative_result"
  THEN <<ranked[CHOOSE i \in 1..Len(ranked) :
                  /\ ranked[i].kind = "negative_result"
                  /\ \A j \in 1..(i - 1) : ranked[j].kind # "negative_result"]>>
  ELSE <<>>

\* A variant of Selectable that does not look at the slot of the card's kind.
SelectableInTopic(selected, cand) ==
  /\ \A i \in 1..Len(selected) : selected[i].card_id # cand.card_id
  /\ TopicCount(selected, cand.topic_key) < PACK_TOPIC_CAP

\* Whether the second pass of build_pack takes the card.
Selectable(selected, cand) ==
  /\ \A i \in 1..Len(selected) : selected[i].card_id # cand.card_id
  /\ TopicCount(selected, cand.topic_key) < PACK_TOPIC_CAP
  /\ SlotCount(selected, group_for_kind(cand.kind))
       < PACK_SLOT_CAPS[group_for_kind(cand.kind)]

\* The second pass over ranked[lo..hi], in rank order, from the cards selected
\* so far; it stops taking cards at PACK_TOTAL_CAP.
RECURSIVE SelectRange(_, _, _, _)
SelectRange(selected, ranked, lo, hi) ==
  CHOOSE r \in
    {IF lo > hi \/ Len(x) >= PACK_TOTAL_CAP THEN x
     ELSE IF lo = hi
          THEN IF Selectable(x, ranked[lo]) THEN Append(x, ranked[lo]) ELSE x
          ELSE SelectRange(SelectRange(x, ranked, lo, (lo + hi) \div 2), ranked,
                           (lo + hi) \div 2 + 1, hi)
     : x \in {selected}} : TRUE

SelectCards(selected, ranked) ==
  CHOOSE r \in {SelectRange(selected, x, 1, Len(x)) : x \in {ranked}} : TRUE

PackPayload(d, pack_id, query, channel, ranked, selected) ==
  [channel |-> channel,
   pack_snapshot |->
     [pack_id |-> pack_id, channel |-> channel, query_text |-> query,
      ranked_candidates |->
        [i \in 1..Min(Len(ranked), SNAPSHOT_RANKED_CAP) |->
           [rank |-> i, card_id |-> ranked[i].card_id, kind |-> ranked[i].kind,
            score_total |-> ranked[i].score_total, status |-> ranked[i].status,
            topic_key |-> ranked[i].topic_key]],
      selected_cards |->
        [i \in 1..Len(selected) |->
           [rank |-> i, card_id |-> selected[i].card_id, kind |-> selected[i].kind,
            score_total |-> selected[i].score_total, status |-> selected[i].status,
            topic_key |-> selected[i].topic_key,
            evidence_ref_ids |-> card_evidence_ids(d, selected[i].card_id)]]],
   exposures |->
     [i \in 1..Len(selected) |->
        [exposure_id |-> "exp:" \o pack_id \o ":" \o selected[i].card_id
                           \o ":" \o ToString(i),
         card_id |-> selected[i].card_id, channel |-> channel,
         rank_position |-> i, score_total |-> selected[i].score_total]]]

PackSelected(s, episode_id, query, channel, pack_id, ranked, selected, now) ==
  append_event(s, episode_id, "exposure_recorded",
    PackPayload(s.db, pack_id, query, channel, ranked,
                SubSeq(selected, 1, Min(Len(selected), PACK_TOTAL_CAP))),
    "exposure_recorded:" \o episode_id \o ":" \o pack_id, TRUE, now)

PackRanked(s, episode_id, query, channel, pack_id, ranked, now) ==
  CHOOSE r \in
    {PackSelected(s, episode_id, query, channel, pack_id, ranked, selected, now)
     : selected \in {SelectCards(FailureFirst(s.db, episode_id, ranked), ranked)}} : TRUE

\* After archive_hygiene_pass.
PackAfterHygiene(s, episode_id, query, channel, pack_id, now) ==
  IF ~s.ok THEN s
  ELSE CHOOSE r \in
         {PackRanked(s, episode_id, query, channel, pack_id, ranked, now)
          : ranked \in {retrieve_cards(s.db, query, episode_id, channel # "auto_pack",
                                       RETRIEVE_LIMIT, channel)}} : TRUE

\* A variant of build_pack that checks the channel after archive_hygiene_pass.
build_pack_after_hygiene(s, episode_id, query, channel, uuid_n, now) ==
  IF channel \notin CHANNELS
  THEN [archive_hygiene_pass(s, episode_id, now) EXCEPT !.ok = FALSE]
  ELSE PackAfterHygiene(archive_hygiene_pass(s, episode_id, now), episode_id, query,
                        channel, "pack_u" \o ToString(uuid_n + 1), now)

\* build_pack raises, and nothing changes, when the channel is not one of CHANNELS.
build_pack(s, episode_id, query, channel, uuid_n, now) ==
  IF channel \notin CHANNELS THEN [s EXCEPT !.ok = FALSE]
  ELSE PackAfterHygiene(archive_hygiene_pass(s, episode_id, now), episode_id, query,
                        channel, "pack_u" \o ToString(uuid_n + 1), now)

(***************************************************************************)
(* Replay.                                                                 *)
(***************************************************************************)
\* The DELETE FROM statements of replay_reducers; AUTOINCREMENT keeps decision_seq.
TruncateProjections(d) ==
  [d EXCEPT !.exposures = {}, !.pack_snapshots = {}, !.disputes = {},
            !.card_status_history = {}, !.utility_stats = {}, !.outcomes = {},
            !.card_evidence_refs = {}, !.card_embeddings = {}, !.cards_fts = {},
            !.consolidation_decisions = <<>>, !.consolidation_ledger = {},
            !.cards = {}]

\* The events lo..hi of the log applied in order to d; hi is at most the length
\* of the log, which no reducer changes.
RECURSIVE ReplayRange(_, _, _)
ReplayRange(d, lo, hi) ==
  CHOOSE r \in
    {IF IsFailed(x) \/ lo > hi THEN x
     ELSE IF lo = hi
     THEN apply_event(x, x.memory_events[lo].event_id, x.memory_events[lo].episode_id,
                      x.memory_events[lo].event_type, x.memory_events[lo].payload,
                      x.memory_events[lo].created_at)
     ELSE ReplayRange(ReplayRange(x, lo, (lo + hi) \div 2), (lo + hi) \div 2 + 1, hi)
     : x \in {d}} : TRUE

\* for row in SELECT ... FROM memory_events ORDER BY event_id: apply_event(row)
ReplayFrom(d, i) == ReplayRange(d, i, Len(d.memory_events))

Replayed(s, d) == IF IsFailed(d) THEN Rollback(s) ELSE Commit([s EXCEPT !.db = d])

\* A variant of replay_reducers that empties the projections and applies no event.
replay_reducers_without_events(s) == Commit([s EXCEPT !.db = TruncateProjections(s.db)])

replay_reducers(s) == Replayed(s, ReplayFrom(TruncateProjections(s.db), 1))

(***************************************************************************)
(* The digest of the projections, and full_rebuild.                       *)
(***************************************************************************)
\* A variant of StableDecision that keeps decision_id.
WholeDecision(r) == r

\* A row of consolidation_decisions without its unstable column, decision_id.
StableDecision(r) ==
  [event_id |-> r.event_id, episode_id |-> r.episode_id,
   candidate_id |-> r.candidate_id, action |-> r.action,
   reason_code |-> r.reason_code, details |-> r.details, created_at |-> r.created_at]

\* SELECT * FROM cards: the columns of the table (the rowid is not one).
CardColumns(c) ==
  [card_id |-> c.card_id, kind |-> c.kind, statement |-> c.statement,
   scope_tier |-> c.scope_tier, scope_id |-> c.scope_id, topic_key |-> c.topic_key,
   tags |-> c.tags, status |-> c.status, supersedes_card_id |-> c.supersedes_card_id,
   created_event_id |-> c.created_event_id, updated_event_id |-> c.updated_event_id,
   archived_at |-> c.archived_at]

\* projection_digest: the rows of the projection tables (cards_fts is not among
\* them), the decisions in the order of decision_id.
projection_digest(d) ==
  [cards |-> {CardColumns(c) : c \in d.cards},
   card_evidence_refs |-> d.card_evidence_refs,
   consolidation_decisions |->
     [i \in 1..Len(d.consolidation_decisions) |->
        StableDecision(d.consolidation_decisions[i])],
   consolidation_ledger |-> d.consolidation_ledger,
   card_embeddings |-> d.card_embeddings,
   pack_snapshots |-> d.pack_snapshots,
   exposures |-> d.exposures,
   disputes |-> d.disputes,
   card_status_history |-> d.card_status_history,
   outcomes |-> d.outcomes,
   utility_stats |-> d.utility_stats]

\* The second replay of full_rebuild(verify_stability = True).
Verified(r, r2) ==
  IF ~r2.ok THEN r2
  ELSE [r2 EXCEPT !.res.verified = projection_digest(r2.db) = projection_digest(r.db)]

Rebuilt(before_digest, r, verify_stability) ==
  IF ~r.ok THEN r
  ELSE [(IF verify_stability THEN Verified(r, replay_reducers(r)) ELSE r)
        EXCEPT !.res.changed = before_digest # projection_digest(r.db)]

full_rebuild(s, verify_stability) ==
  Rebuilt(projection_digest(s.db), replay_reducers([s EXCEPT !.res = NoResult]),
          verify_stability)

(***************************************************************************)
(* Recovery.                                                               *)
(***************************************************************************)
\* The episodes that have an event of the type in the log.
EpisodesWith(d, event_type) ==
  {d.memory_events[i].episode_id :
     i \in {j \in 1..Len(d.memory_events) : d.memory_events[j].event_type = event_type}}

\* The values of payload key k over the events of the type.
RecordedIds(d, event_type, k) ==
  {d.memory_events[i].payload[k] :
     i \in {j \in 1..Len(d.memory_events) :
              /\ d.memory_events[j].event_type = event_type
              /\ k \in DOMAIN d.memory_events[j].payload}}

ByName(S, field) == SortedSeq(S, LAMBDA a, b : NameRank(a[field]) < NameRank(b[field]))

RecoverTrigger(s, ep, triggered, now) ==
  IF ~s.ok \/ ep.episode_id \in triggered THEN s
  ELSE append_event(s, ep.episode_id, "consolidation_triggered",
         [episode_id |-> ep.episode_id, trigger |-> "recovery_missing_trigger"],
         "consolidation_triggered:" \o ep.episode_id, TRUE, now)

RecoverEpisode(s, ep, recorded, triggered, now) ==
  RecoverTrigger(
    IF ep.episode_id \in recorded THEN s
    ELSE append_event(s, ep.episode_id, "episode_recorded",
           [episode_id |-> ep.episode_id, payload_hash |-> ep.payload_hash],
           "episode_recorded:" \o ep.episode_id \o ":" \o ep.payload_hash, TRUE, now),
    ep, triggered, now)

RECURSIVE RecoverEpisodes(_, _, _, _, _)
RecoverEpisodes(s, eps, recorded, triggered, now) ==
  IF eps = <<>> \/ ~s.ok THEN s
  ELSE RecoverEpisodes(RecoverEpisode(s, Head(eps), recorded, triggered, now),
                       Tail(eps), recorded, triggered, now)

RECURSIVE RecoverArtifacts(_, _, _, _)
RecoverArtifacts(s, arts, recorded, now) ==
  IF arts = <<>> \/ ~s.ok THEN s
  ELSE RecoverArtifacts(
         IF Head(arts).artifact_id \in recorded THEN s
         ELSE append_event(s, Head(arts).episode_id, "artifact_recorded",
                [artifact_id |-> Head(arts).artifact_id,
                 artifact_kind |-> Head(arts).artifact_kind,
                 content_hash |-> Head(arts).content],
                "artifact_recorded:" \o Head(arts).episode_id \o ":"
                  \o Head(arts).artifact_id \o ":" \o Head(arts).content,
                TRUE, now),
         Tail(arts), recorded, now)

RECURSIVE RecoverEvidence(_, _, _, _)
RecoverEvidence(s, refs, recorded, now) ==
  IF refs = <<>> \/ ~s.ok THEN s
  ELSE RecoverEvidence(
         IF Head(refs).evidence_ref_id \in recorded THEN s
         ELSE append_event(s, Head(refs).episode_id, "evidence_ref_recorded",
                [evidence_ref_id |-> Head(refs).evidence_ref_id,
                 ref_kind |-> Head(refs).ref_kind, ref_hash |-> Head(refs).ref_hash],
                "evidence_ref_recorded:" \o Head(refs).episode_id \o ":"
                  \o Head(refs).evidence_ref_id \o ":" \o Head(refs).ref_hash,
                TRUE, now),
         Tail(refs), recorded, now)

\* run_missing_consolidation: the episodes with evidence and no candidate_proposed.
RECURSIVE RecoverConsolidation(_, _, _, _)
RecoverConsolidation(s, eps, consolidated, now) ==
  IF eps = <<>> \/ ~s.ok THEN s
  ELSE RecoverConsolidation(
         IF \/ Head(eps).episode_id \in consolidated
            \/ \A r \in s.db.evidence_refs : r.episode_id # Head(eps).episode_id
         THEN s
         ELSE consolidate_episode(s, Head(eps).episode_id, now),
         Tail(eps), consolidated, now)

\* recover_partial_writes; d is the store the call starts in, whose rows and
\* events it reads before it writes.
RecoverFrom(s, d, episodes, now) ==
  RecoverConsolidation(
    RecoverEvidence(
      RecoverArtifacts(
        RecoverEpisodes(s, episodes, EpisodesWith(d, "episode_recorded"),
                        EpisodesWith(d, "consolidation_triggered"), now),
        ByName(d.artifacts, "artifact_id"),
        RecordedIds(d, "artifact_recorded", "artifact_id"), now),
      ByName(d.evidence_refs, "evidence_ref_id"),
      RecordedIds(d, "evidence_ref_recorded", "evidence_ref_id"), now),
    episodes, EpisodesWith(d, "candidate_proposed"), now)

recover_partial_writes(s, now) ==
  RecoverFrom(s, s.db, ByName(s.db.episodes, "episode_id"), now)

(***************************************************************************)
(* Embedding migration.                                                    *)
(***************************************************************************)
\* COALESCE(ce.embedding_model, 'pseudo-v1') of the card.
EmbeddingModelOf(d, card_id) ==
  IF \E e \in d.card_embeddings : e.card_id = card_id
  THEN (CHOOSE e \in d.card_embeddings : e.card_id = card_id).embedding_model
  ELSE "pseudo-v1"

\* The rows migrate_embeddings selects: the cards whose embedding has the tag
\* from_model, or every card when from_model is not given.
MigratedCards(d, from_model) ==
  IF from_model \in {NONE, ""} THEN d.cards
  ELSE {c \in d.cards : EmbeddingModelOf(d, c.card_id) = from_model}

\* migrate_embeddings: the statements run on the connection and the method
\* returns; it has no `with self.conn:` and no commit.
migrate_embeddings(s, to_model, dim, from_model) ==
  IF to_model = "" THEN [s EXCEPT !.ok = FALSE, !.res = NoResult]
  ELSE [s EXCEPT !.db.card_embeddings =
          {e \in @ : \A c \in MigratedCards(s.db, from_model) : c.card_id # e.card_id}
            \cup {[card_id |-> c.card_id, embedding_model |-> to_model, dim |-> dim,
                   text |-> c.statement, updated_event_id |-> c.updated_event_id]
                  : c \in MigratedCards(s.db, from_model)}]

(***************************************************************************)
(* Inputs.  scn names the catalogue of inputs of a behaviour.             *)
(***************************************************************************)
NoPayload ==
  [episode_id |-> NONE, user_text |-> "empty", started_at |-> -1, ended_at |-> -1,
   scope_tier |-> NONE, scope_id |-> NONE, artifacts |-> <<>>, evidence_refs |-> <<>>]

UserRef(id) ==
  [evidence_ref_id |-> id, ref_kind |-> "user_span", artifact_id |-> NONE,
   excerpt_text |-> NONE]

ArtifactRef(id, ref_kind, artifact_id, t) ==
  [evidence_ref_id |-> id, ref_kind |-> ref_kind, artifact_id |-> artifact_id,
   excerpt_text |-> t]

\* The payloads of record_episode in the main catalogue.
MainPayloads ==
  << [NoPayload EXCEPT !.episode_id = "ep1", !.user_text = "pin",
                       !.started_at = 1, !.ended_at = 2,
                       !.evidence_refs = <<UserRef("r1")>>],
     [NoPayload EXCEPT !.episode_id = "ep2", !.user_text = "sky",
                       !.started_at = 1, !.ended_at = 2,
                       !.artifacts = <<[artifact_id |-> "a1", artifact_kind |-> "tool_output",
                                        content |-> "runtests"]>>,
                       !.evidence_refs = <<ArtifactRef("r2", "tool_output", "a1", "runtests"),
                                           ArtifactRef("r3", "doc_span", "missing", "sky")>>],
     [NoPayload EXCEPT !.user_text = "sky"] >>

\* The episodes of the budget scenario: episode n states a preference in its own
\* global scope.
BudgetPayload(n, scope_n, t) ==
  [NoPayload EXCEPT !.episode_id = Numbered("g", n), !.user_text = t,
                    !.started_at = 1, !.ended_at = 2,
                    !.scope_tier = "global", !.scope_id = Numbered("s", scope_n),
                    !.evidence_refs = <<UserRef(Numbered("q", n))>>]

\* The number of cards of the budget scenario's first store: one less than the
\* budget of global preferences.
Seeds == BUDGET_CAPS["global"]["preference"] - 1

\* Episode Seeds + 1 states another preference for the scope of episode Seeds,
\* episode Seeds + 2 the preference of the others for a scope of its own.
BudgetPayloads ==
  << BudgetPayload(Seeds + 1, Seeds, "usespaces"),
     BudgetPayload(Seeds + 2, Seeds + 1, "usetabs") >>

\* An evidence ref that points at nothing: its excerpt is empty and it makes no
\* candidate, but it has its place among the evidence rows of the episode.
EmptyRef(id) ==
  [evidence_ref_id |-> id, ref_kind |-> "tool_output", artifact_id |-> NONE,
   excerpt_text |-> NONE]

\* An episode of the default scope with user text t and the evidence refs.
EpisodePayload(episode_id, t, refs) ==
  [NoPayload EXCEPT !.episode_id = episode_id, !.user_text = t,
                    !.started_at = 1, !.ended_at = 2, !.evidence_refs = refs]

\* The payloads of the episode-cap scenario: an episode with two commitments
\* (EPISODE_KIND_CAPS allows one), and the same episode sent again with one more
\* evidence ref, before or after the refs it has.
CapPayloads ==
  << EpisodePayload("ep1", "tabs",
       <<UserRef("r4"), ArtifactRef("r5", "user_span", NONE, "spaces")>>),
     EpisodePayload("ep1", "tabs",
       <<EmptyRef("r1"), UserRef("r4"), ArtifactRef("r5", "user_span", NONE, "spaces")>>),
     EpisodePayload("ep1", "tabs",
       <<UserRef("r4"), ArtifactRef("r5", "user_span", NONE, "spaces"),
         ArtifactRef("r6", "user_span", NONE, "pin")>>) >>

\* The payloads of the supersession scenario: two episodes that state two
\* preferences of one topic for one scope, and each of them sent again with an
\* evidence ref that comes before the one it has.
SupersedePayloads ==
  << EpisodePayload("ep1", "usetabs", <<UserRef("r4")>>),
     EpisodePayload("ep2", "usespaces", <<UserRef("r5")>>),
     EpisodePayload("ep1", "usetabs", <<EmptyRef("r1"), UserRef("r4")>>),
     EpisodePayload("ep2", "usespaces", <<EmptyRef("r2"), UserRef("r5")>>) >>

\* The evidence of an episode of the slot scenario, refs k + 1 .. k + 10: the
\* user text and nine excerpts, which make three normative cards, a
\* negative_result, two tactics and four facts.
SlotRefs(k) ==
  << UserRef(Numbered("q", k + 1)),
     ArtifactRef(Numbered("q", k + 2), "user_span", NONE, "tabs"),
     ArtifactRef(Numbered("q", k + 3), "user_span", NONE, "usetabs"),
     ArtifactRef(Numbered("q", k + 4), "tool_output", NONE, "timeout"),
     ArtifactRef(Numbered("q", k + 5), "tool_output", NONE, "runtests"),
     ArtifactRef(Numbered("q", k + 6), "tool_output", NONE, "succeeded"),
     ArtifactRef(Numbered("q", k + 7), "user_span", NONE, "sky"),
     ArtifactRef(Numbered("q", k + 8), "doc_span", NONE, "tabs"),
     ArtifactRef(Numbered("q", k + 9), "doc_span", NONE, "usetabs"),
     ArtifactRef(Numbered("q", k + 10), "doc_span", NONE, "timeout") >>

\* The payloads of the slot scenario: two episodes of two scopes with the same
\* ten statements.
SlotPayloads ==
  << EpisodePayload("ep1", "pin", SlotRefs(0)),
     [EpisodePayload("ep2", "pin", SlotRefs(10)) EXCEPT !.scope_id = "other"] >>

\* The episodes of the wide scenario: the first states a fact, the others a
\* constraint, each in a repo scope of its own.
WidePayload(n) ==
  [EpisodePayload(Numbered3("w", n), IF n = 1 THEN "sky" ELSE "pin",
                  <<UserRef(Numbered3("x", n))>>)
   EXCEPT !.scope_tier = "repo", !.scope_id = Numbered3("y", n)]

\* The episode of the threshold scenario states a constraint in a domain scope
\* and has one tool_output and five user_span evidence refs.
ThresholdPayloads ==
  << [EpisodePayload("ep1", "pin",
                     <<EmptyRef("r1"), UserRef("r2"), UserRef("r3"), UserRef("r4"),
                       UserRef("r5"), UserRef("r6")>>)
      EXCEPT !.scope_tier = "domain"] >>

\* Two episodes of one scope whose user says the same words, all of them
\* stopwords.
DuplicatePayloads ==
  << EpisodePayload("ep1", "itis", <<UserRef("r1")>>),
     EpisodePayload("ep2", "itis", <<UserRef("r2")>>) >>

\* An episode that states two facts, and an episode of the same scope whose
\* fact has the words of the first fact and the word counts of neither.
NoveltyPayloads ==
  << EpisodePayload("ep1", "moreblue",
       <<UserRef("r1"), ArtifactRef("r2", "user_span", NONE, "twopink")>>),
     EpisodePayload("ep2", "morered", <<UserRef("r3")>>) >>

\* An episode that states a preference and has three tool_output refs, an
\* episode that states the other preference of the topic, and an episode that
\* states the first preference again.
ReadmitPayloads ==
  << EpisodePayload("ep1", "usetabs",
       <<EmptyRef("r1"), EmptyRef("r2"), EmptyRef("r3"), UserRef("r4")>>),
     EpisodePayload("ep2", "usespaces", <<UserRef("r5")>>),
     EpisodePayload("other", "usetabs", <<UserRef("r6")>>) >>

\* An episode that states a fact, and an episode of the same scope whose fact
\* has four of the five words of the first fact, in nearly its proportions.
ShadowPayloads ==
  << EpisodePayload("ep1", "withpink", <<UserRef("r1")>>),
     EpisodePayload("ep2", "plain", <<UserRef("r2")>>) >>

Payloads ==
  MainPayloads \o BudgetPayloads \o CapPayloads \o SupersedePayloads \o SlotPayloads
    \o ThresholdPayloads \o DuplicatePayloads \o NoveltyPayloads \o ReadmitPayloads
    \o ShadowPayloads

EpisodeIds == {"ep1", "ep2", "other"}

\* The card consolidate_episode admits for the episode of the first payload.
PinCard == CardId("constraint", "repo", "default", "pin")

\* The arguments of record_outcome: episode, outcome type, evidence refs, metadata.
Outcomes ==
  << <<"ep2", "tool_success", <<"r2">>, NONE>>,
     <<"ep1", "tool_failure", <<>>, NONE>>,
     <<"ep1", "not_terminal", <<>>, NONE>>,
     <<"g01", "user_corrected", <<"q01">>, NONE>>,
     <<"ep2", "tool_failure", <<"q14">>, NONE>> >>

\* The arguments of record_dispute: episode, card, evidence ref.
DomainPinCard == CardId("constraint", "domain", "default", "pin")

\* The preference card of the readmit scenario.
TabsCard == CardId("preference", "repo", "default", "usetabs")

Disputes ==
  << <<"ep1", PinCard, "r2">>, <<"ep1", PinCard, "missing">>,
     <<"g01", CardId("preference", "global", "s01", "usetabs"), "q01">> >>
    \o [i \in 1..6 |-> <<"ep1", DomainPinCard, "r" \o ToString(i)>>]
    \o << <<"ep1", TabsCard, "r3">> >>

\* The arguments of build_pack: episode, query, channel.
Packs ==
  << <<"ep2", "runtests", "auto_pack">>, <<"ep1", "pin", "search">>,
     <<"g01", "usetabs", "auto_pack">>, <<"ep1", "timeout", "search">>,
     <<Numbered3("w", 2), "runtests", "auto_pack">>,
     <<"ep2", "runtests", "search">>, <<"ep1", "pin", "unknown">>,
     <<"ep2", "usetabs", "auto_pack">>, <<"ep2", "usetabs", "search">>,
     <<"ep1", "pin", "auto_pack">> >>

\* The calls of append_event from outside the engine: a card_admitted whose card
\* has no evidence, an event under the key of another episode's event, a
\* card_status_changed of a card that has no row, two notes of one episode, a
\* card_admitted whose card is a preference without evidence, a card_admitted
\* whose card has the statement, kind and scope of another card, an event
\* under the key of the consolidation_triggered event of an episode to come,
\* and a card_admitted whose card has the words of the fact "plain" with one
\* of them five times.
RawEvents ==
  << [episode_id |-> "ep1", event_type |-> "card_admitted",
      payload |-> [candidate_id |-> "raw", reason_code |-> "admitted",
                   card |-> [card_id |-> "card:raw", kind |-> "fact",
                             statement |-> "sky", scope_tier |-> "global",
                             scope_id |-> "default", topic_key |-> "sky"]],
      idempotency_key |-> "raw:card_admitted"],
     [episode_id |-> "ep2", event_type |-> "note",
      payload |-> [note |-> "sky"],
      idempotency_key |-> "consolidation_triggered:ep1"],
     [episode_id |-> "ep1", event_type |-> "card_status_changed",
      payload |-> [card_id |-> "card:none", from_status |-> "active",
                   to_status |-> "needs_recheck"],
      idempotency_key |-> "raw:card_status_changed"],
     [episode_id |-> "ep1", event_type |-> "note",
      payload |-> [note |-> "sky"],
      idempotency_key |-> "raw:note:1"],
     [episode_id |-> "ep1", event_type |-> "note",
      payload |-> [note |-> "pin"],
      idempotency_key |-> "raw:note:2"],
     [episode_id |-> "ep1", event_type |-> "card_admitted",
      payload |-> [candidate_id |-> "raw", reason_code |-> "admitted",
                   card |-> [card_id |-> "card:raw:preference", kind |-> "preference",
                             statement |-> "usetabs", scope_tier |-> "repo",
                             scope_id |-> "default", topic_key |-> topic_key("usetabs")]],
      idempotency_key |-> "raw:card_admitted:preference"],
     [episode_id |-> "ep1", event_type |-> "card_admitted",
      payload |-> [candidate_id |-> "raw", reason_code |-> "admitted",
                   card |-> [card_id |-> "card:raw:twin", kind |-> "fact",
                             statement |-> "twopink", scope_tier |-> "repo",
                             scope_id |-> "default", topic_key |-> topic_key("twopink")]],
      idempotency_key |-> "raw:card_admitted:twin"],
     [episode_id |-> "ep_u1", event_type |-> "note",
      payload |-> [note |-> "sky"],
      idempotency_key |-> "consolidation_triggered:ep_u2"],
     [episode_id |-> "ep1", event_type |-> "card_admitted",
      payload |-> [candidate_id |-> "raw", reason_code |-> "admitted",
                   card |-> [card_id |-> "card:raw:redder", kind |-> "fact",
                             statement |-> "redder", scope_tier |-> "repo",
                             scope_id |-> "default", topic_key |-> topic_key("redder")]],
      idempotency_key |-> "raw:card_admitted:redder"] >>

\* The scenarios.  A behaviour belongs to one scenario, chosen when it starts:
\* the scenario names the inputs its operations are called with.
Catalogue ==
  [ingest  |-> [payloads |-> {1, 2, 3}, raws |-> {}, episodes |-> {"ep1", "ep_u1", "other"},
                packs |-> {}, outcomes |-> {}, disputes |-> {},
                ops |-> {"recover_partial_writes", "replay_reducers", "full_rebuild",
                         "reopen", "migrate_embeddings"}],
   raw     |-> [payloads |-> {1, 2}, raws |-> {1, 2, 3, 6}, episodes |-> {"ep1"},
                packs |-> {}, outcomes |-> {}, disputes |-> {},
                ops |-> {"run_dedup_daily", "replay_reducers", "full_rebuild"}],
   pack    |-> [payloads |-> {2}, raws |-> {}, episodes |-> {"ep2"},
                packs |-> {1}, outcomes |-> {1, 3}, disputes |-> {},
                ops |-> {"tick", "replay_reducers", "full_rebuild"}],
   dispute |-> [payloads |-> {1, 2}, raws |-> {}, episodes |-> {"ep1"},
                packs |-> {2}, outcomes |-> {2}, disputes |-> {1, 2},
                ops |-> {"replay_reducers"}],
   budget  |-> [payloads |-> {4}, raws |-> {},
                episodes |-> {Numbered("g", Seeds + 1), Numbered("g", Seeds + 2)},
                packs |-> {3}, outcomes |-> {}, disputes |-> {},
                ops |-> {"run_dedup_daily", "replay_reducers"}],
   caps    |-> [payloads |-> {7, 8}, raws |-> {}, episodes |-> {"ep1"},
                packs |-> {}, outcomes |-> {}, disputes |-> {},
                ops |-> {"recover_partial_writes", "replay_reducers"}],
   supersede |-> [payloads |-> {11, 12}, raws |-> {}, episodes |-> {"ep1", "ep2"},
                  packs |-> {8, 9}, outcomes |-> {}, disputes |-> {},
                  ops |-> {}],
   slots   |-> [payloads |-> {}, raws |-> {}, episodes |-> {},
                packs |-> {1, 4, 6}, outcomes |-> {5}, disputes |-> {},
                ops |-> {}],
   wide    |-> [payloads |-> {}, raws |-> {}, episodes |-> {},
                packs |-> {5}, outcomes |-> {}, disputes |-> {},
                ops |-> {}],
   threshold |-> [payloads |-> {}, raws |-> {}, episodes |-> {},
                  packs |-> {}, outcomes |-> {}, disputes |-> 4..9,
                  ops |-> {}],
   duplicate |-> [payloads |-> {17}, raws |-> {}, episodes |-> {"ep2"},
                  packs |-> {}, outcomes |-> {}, disputes |-> {},
                  ops |-> {}],
   stale   |-> [payloads |-> {}, raws |-> {}, episodes |-> {},
                packs |-> {2, 7, 10}, outcomes |-> {}, disputes |-> {},
                ops |-> {"tick"}],
   novelty |-> [payloads |-> {19}, raws |-> {}, episodes |-> {"ep2"},
                packs |-> {}, outcomes |-> {}, disputes |-> {},
                ops |-> {}],
   readmit |-> [payloads |-> {}, raws |-> {}, episodes |-> {},
                packs |-> {}, outcomes |-> {}, disputes |-> {10},
                ops |-> {}],
   twins   |-> [payloads |-> {}, raws |-> {7}, episodes |-> {},
                packs |-> {}, outcomes |-> {}, disputes |-> {},
                ops |-> {"run_dedup_daily"}],
   handles |-> [payloads |-> {1}, raws |-> {4, 5}, episodes |-> {},
                packs |-> {}, outcomes |-> {}, disputes |-> {},
                ops |-> {"second_handle"}],
   rearchive |-> [payloads |-> {}, raws |-> {}, episodes |-> {"ep2"},
                  packs |-> {10}, outcomes |-> {}, disputes |-> {},
                  ops |-> {"tick"}],
   collide |-> [payloads |-> {3}, raws |-> {8}, episodes |-> {},
                packs |-> {}, outcomes |-> {}, disputes |-> {},
                ops |-> {"recover_partial_writes"}],
   shadow  |-> [payloads |-> {24}, raws |-> {3, 9}, episodes |-> {"ep2"},
                packs |-> {}, outcomes |-> {}, disputes |-> {},
                ops |-> {"migrate_embeddings"}]]

Scenarios == DOMAIN Catalogue

NoCall ==
  [op |-> "init", arg |-> NONE, ok |-> TRUE, res |-> NoResult,
   room |-> Headroom(EmptyStore)]

Call(op, arg, s) == [op |-> op, arg |-> arg, ok |-> s.ok, res |-> s.res, room |-> s.room]

(***************************************************************************)
(* The specification.                                                      *)
(***************************************************************************)
\* record_episode and consolidate_episode of the n-th episode of the budget
\* scenario, in its own scope.
SeedEpisode(s, n) ==
  AndThen(record_episode(s, BudgetPayload(n, n, "usetabs"), 0, 0),
          LAMBDA r : AndThen(consolidate_episode(r, Numbered("g", n), 0),
                             LAMBDA c : Commit(c)))

\* The episodes lo..hi recorded and consolidated one after the other, from s.
RECURSIVE SeededRange(_, _, _)
SeededRange(s, lo, hi) ==
  CHOOSE r \in
    {IF ~x.ok \/ lo > hi THEN x
     ELSE IF lo = hi THEN SeedEpisode(x, lo)
     ELSE SeededRange(SeededRange(x, lo, (lo + hi) \div 2), (lo + hi) \div 2 + 1, hi)
     : x \in {s}} : TRUE

Seeded(n) == SeededRange(Conn(EmptyStore, EmptyStore), 1, n)

\* The store a scenario starts in: the empty store of init_schema, and in the
\* budget scenario the store in which the episodes 1..Seeds are consolidated
\* and the two episodes after them are recorded.
SeededStore ==
  AndThen(Seeded(Seeds),
    LAMBDA s : AndThen(record_episode(s, Payloads[4], 0, 0),
                       LAMBDA r : record_episode(r, Payloads[5], 0, 0))).db

\* record_episode of the payload and consolidate_episode of its episode.
Ingested(s, p) ==
  AndThen(record_episode(s, p, 0, 0),
          LAMBDA r : AndThen(consolidate_episode(r, p.episode_id, 0),
                             LAMBDA c : Commit(c)))

\* The store of the episode-cap scenario: the first episode is consolidated.
CapStore == Ingested(Conn(EmptyStore, EmptyStore), Payloads[6]).db

\* The store of the supersession scenario: both episodes are consolidated, the
\* preference of the second has superseded the preference of the first.
SupersedeStore ==
  AndThen(Ingested(Conn(EmptyStore, EmptyStore), Payloads[9]),
          LAMBDA s : Ingested(s, Payloads[10])).db

\* The store of the slot scenario: both episodes are consolidated.
SlotStore ==
  AndThen(Ingested(Conn(EmptyStore, EmptyStore), Payloads[13]),
          LAMBDA s : Ingested(s, Payloads[14])).db

\* The episodes lo..hi of the wide scenario consolidated one after the other.
RECURSIVE WideRange(_, _, _)
WideRange(s, lo, hi) ==
  CHOOSE r \in
    {IF ~x.ok \/ lo > hi THEN x
     ELSE IF lo = hi THEN Ingested(x, WidePayload(lo))
     ELSE WideRange(WideRange(x, lo, (lo + hi) \div 2), (lo + hi) \div 2 + 1, hi)
     : x \in {s}} : TRUE

\* The store of the wide scenario: WideFamily cards.
WideStore == WideRange(Conn(EmptyStore, EmptyStore), 1, WideFamily).db

\* The store of the threshold scenario: its episode is consolidated.
ThresholdStore == Ingested(Conn(EmptyStore, EmptyStore), Payloads[15]).db

\* The store of the duplicate scenario: its first episode is consolidated.
DuplicateStore == Ingested(Conn(EmptyStore, EmptyStore), Payloads[16]).db

\* The store of the novelty scenario: the two facts of its first episode are cards.
NoveltyStore == Ingested(Conn(EmptyStore, EmptyStore), Payloads[18]).db

\* The store after the first episode of ShadowPayloads.
ShadowStore == Ingested(Conn(EmptyStore, EmptyStore), Payloads[23]).db

\* The store of the readmit scenario: the preference of the first episode was
\* disputed up to the threshold of its scope, then superseded by the preference
\* of the second episode, then admitted again from the third.
ReadmitStore ==
  AndThen(Ingested(Conn(EmptyStore, EmptyStore), Payloads[20]),
    LAMBDA a : AndThen(record_dispute(a, "ep1", TabsCard, "r1", 0),
      LAMBDA b : AndThen(record_dispute(b, "ep1", TabsCard, "r2", 0),
        LAMBDA c : AndThen(Ingested(c, Payloads[21]),
          LAMBDA e : Ingested(e, Payloads[22]))))).db

\* The store of the rearchive scenario: the card of the first episode was
\* exposed by a pack at time 0, and the second episode, which states the same
\* words, is recorded.
PackedStore ==
  AndThen(Ingested(Conn(EmptyStore, EmptyStore), Payloads[16]),
    LAMBDA a : AndThen(build_pack(a, "ep1", "pin", "auto_pack", MaxUuids, 0),
      LAMBDA b : AndThen(record_episode(Commit(b), Payloads[17], 0, 0),
        LAMBDA c : Commit(c)))).db

InitialStore(scenario) ==
  CASE scenario = "budget" -> SeededStore
    [] scenario = "rearchive" -> PackedStore
    [] scenario \in {"duplicate", "stale"} -> DuplicateStore
    [] scenario = "threshold" -> ThresholdStore
    [] scenario \in {"novelty", "twins"} -> NoveltyStore
    [] scenario = "shadow" -> ShadowStore
    [] scenario = "readmit" -> ReadmitStore
    [] scenario = "slots" -> SlotStore
    [] scenario = "wide" -> WideStore
    [] scenario = "caps" -> CapStore
    [] scenario = "supersede" -> SupersedeStore
    [] OTHER -> EmptyStore

\* The store a scenario starts in, and the numbers of its events and decisions.
Init ==
  /\ scn \in Scenarios
  /\ db = InitialStore(scn)
  /\ disk = db
  /\ seeded = [events |-> Len(db.memory_events),
               decisions |-> Len(db.consolidation_decisions)]
  /\ clock = 0
  /\ uuids = 0
  /\ last = NoCall
  /\ peer = Idle

\* What every operation does with the connection state s it ends in.
Finish(op, arg, s) ==
  /\ Len(s.db.memory_events) <= seeded.events + MaxEvents
  /\ db' = s.db
  /\ disk' = s.disk
  /\ last' = Call(op, arg, s)

RecordEpisode ==
  \E i \in Catalogue[scn].payloads :
    /\ Payloads[i].episode_id = NONE => uuids < MaxUuids
    /\ Finish("record_episode", ToString(i),
              record_episode(Conn(db, disk), Payloads[i], clock, uuids))
    /\ uuids' = IF Payloads[i].episode_id = NONE THEN uuids + 1 ELSE uuids
    /\ UNCHANGED <<clock, scn, seeded, peer>>

AppendEvent ==
  \E i \in Catalogue[scn].raws, apply \in BOOLEAN :
    /\ Finish("append_event", ToString(i),
              append_event(Conn(db, disk), RawEvents[i].episode_id,
                           RawEvents[i].event_type, RawEvents[i].payload,
                           RawEvents[i].idempotency_key, apply, clock))
    /\ UNCHANGED <<clock, uuids, scn, seeded, peer>>

ConsolidateEpisode ==
  \E ep \in Catalogue[scn].episodes :
    /\ Finish("consolidate_episode", ep, consolidate_episode(Conn(db, disk), ep, clock))
    /\ UNCHANGED <<clock, uuids, scn, seeded, peer>>

BuildPack ==
  \E i \in Catalogue[scn].packs :
    /\ uuids < MaxUuids
    /\ Finish("build_pack", ToString(i),
              build_pack(Conn(db, disk), Packs[i][1], Packs[i][2], Packs[i][3],
                         uuids, clock))
    /\ uuids' = uuids + 1
    /\ UNCHANGED <<clock, scn, seeded, peer>>

RecordDispute ==
  \E i \in Catalogue[scn].disputes :
    /\ Finish("record_dispute", ToString(i),
              record_dispute(Conn(db, disk), Disputes[i][1], Disputes[i][2],
                             Disputes[i][3], clock))
    /\ UNCHANGED <<clock, uuids, scn, seeded, peer>>

RecordOutcome ==
  \E i \in Catalogue[scn].outcomes :
    /\ Finish("record_outcome", ToString(i),
              record_outcome(Conn(db, disk), Outcomes[i][1], Outcomes[i][2],
                             Outcomes[i][3], Outcomes[i][4], clock))
    /\ UNCHANGED <<clock, uuids, scn, seeded, peer>>

RunDedupDaily ==
  /\ "run_dedup_daily" \in Catalogue[scn].ops
  /\ Finish("run_dedup_daily", NONE, run_dedup_daily(Conn(db, disk), clock))
  /\ UNCHANGED <<clock, uuids, scn, seeded, peer>>

RecoverPartialWrites ==
  /\ "recover_partial_writes" \in Catalogue[scn].ops
  /\ Finish("recover_partial_writes", NONE,
            recover_partial_writes(Conn(db, disk), clock))
  /\ UNCHANGED <<clock, uuids, scn, seeded, peer>>

ReplayReducers ==
  /\ "replay_reducers" \in Catalogue[scn].ops
  /\ db.decision_seq + Len(db.consolidation_decisions)
       <= 2 * seeded.decisions + MaxDecisionId
  /\ Finish("replay_reducers", NONE, replay_reducers(Conn(db, disk)))
  /\ UNCHANGED <<clock, uuids, scn, seeded, peer>>

FullRebuild ==
  \E verify_stability \in BOOLEAN :
    /\ "full_rebuild" \in Catalogue[scn].ops
    /\ db.decision_seq + 2 * Len(db.consolidation_decisions)
         <= 2 * seeded.decisions + MaxDecisionId
    /\ Finish("full_rebuild", ToString(verify_stability),
              full_rebuild(Conn(db, disk), verify_stability))
    /\ UNCHANGED <<clock, uuids, scn, seeded, peer>>

\* The arguments of migrate_embeddings: to_model, from_model.
Migrations == << <<"m2", NONE>>, <<"m2", "pseudo-v1">>, <<"", NONE>> >>

MigrateEmbeddings ==
  \E i \in DOMAIN Migrations :
    /\ "migrate_embeddings" \in Catalogue[scn].ops
    /\ Finish("migrate_embeddings", ToString(i),
              migrate_embeddings(Conn(db, disk), Migrations[i][1], 64, Migrations[i][2]))
    /\ UNCHANGED <<clock, uuids, scn, seeded, peer>>

\* append_event on a second connection to the same database file, one
\* statement at a time.  Its SELECTs run outside a transaction and read the
\* committed store; its INSERT opens the transaction.  peer is the position
\* of that call: the event it appends and the seq_no it has read.
PeerSelectKey ==
  \E i \in Catalogue[scn].raws :
    /\ "second_handle" \in Catalogue[scn].ops
    /\ peer.pc = "idle"
    /\ db = disk
    /\ IF KeyIndex(disk, RawEvents[i].idempotency_key) # {}
       THEN /\ Finish("peer_append_event", ToString(i),
                      append_event(Conn(disk, disk), RawEvents[i].episode_id,
                                   RawEvents[i].event_type, RawEvents[i].payload,
                                   RawEvents[i].idempotency_key, TRUE, clock))
            /\ peer' = Idle
       ELSE /\ peer' = [pc |-> "checked", raw |-> i, seq_no |-> 0]
            /\ last' = [NoCall EXCEPT !.op = "peer_select"]
            /\ UNCHANGED <<db, disk>>
    /\ UNCHANGED <<clock, uuids, scn, seeded>>

PeerSelectSeq ==
  /\ peer.pc = "checked"
  /\ peer' = [peer EXCEPT !.pc = "numbered",
                          !.seq_no = NextSeqNo(disk, RawEvents[peer.raw].episode_id)]
  /\ last' = [NoCall EXCEPT !.op = "peer_select"]
  /\ UNCHANGED <<db, disk, clock, uuids, scn, seeded>>

PeerInsert ==
  /\ peer.pc = "numbered"
  /\ db = disk
  /\ Finish("peer_append_event", ToString(peer.raw),
            insert_event(Conn(disk, disk), RawEvents[peer.raw].episode_id, peer.seq_no,
                         RawEvents[peer.raw].event_type, RawEvents[peer.raw].payload,
                         RawEvents[peer.raw].idempotency_key, TRUE, clock))
  /\ peer' = Idle
  /\ UNCHANGED <<clock, uuids, scn, seeded>>

\* Time passes.
Tick ==
  /\ "tick" \in Catalogue[scn].ops
  /\ clock + TickDays <= MaxClock
  /\ clock' = clock + TickDays
  /\ last' = [NoCall EXCEPT !.op = "tick"]
  /\ UNCHANGED <<db, disk, uuids, scn, seeded, peer>>

\* The process ends without a commit and the store is opened again.
Reopen ==
  /\ "reopen" \in Catalogue[scn].ops
  /\ db' = disk
  /\ last' = [NoCall EXCEPT !.op = "reopen"]
  /\ UNCHANGED <<disk, clock, uuids, scn, seeded, peer>>

Next ==
  \/ RecordEpisode
  \/ AppendEvent
  \/ ConsolidateEpisode
  \/ BuildPack
  \/ RecordDispute
  \/ RecordOutcome
  \/ RunDedupDaily
  \/ RecoverPartialWrites
  \/ ReplayReducers
  \/ FullRebuild
  \/ MigrateEmbeddings
  \/ PeerSelectKey
  \/ PeerSelectSeq
  \/ PeerInsert
  \/ Tick
  \/ Reopen

Spec == Init /\ [][Next]_vars

(***************************************************************************)
(* The log.                                                                *)
(***************************************************************************)
EpisodesOfLog(d) == {d.memory_events[i].episode_id : i \in 1..Len(d.memory_events)}

SeqNosOf(d, episode_id) ==
  {d.memory_events[i].seq_no :
     i \in {j \in 1..Len(d.memory_events) : d.memory_events[j].episode_id = episode_id}}

\* The seq_no values of every episode are 1..N, N the number of its events.
SeqNoDense(d) ==
  \A ep \in EpisodesOfLog(d) :
    /\ SeqNosOf(d, ep) = 1..Len(EventsOf(d, ep))
    /\ Cardinality(SeqNosOf(d, ep)) = Len(EventsOf(d, ep))

\* C1: after any sequence of operations, append_event from outside included, the
\* seq_no values of every episode's events are exactly 1..N, without a gap or a
\* repeat, in the store of the connection and in the committed store.
C1_SeqNoDense == SeqNoDense(db) /\ SeqNoDense(disk)

\* append_event from outside has given an episode its fourth or a later event
\* while the log holds the events of another episode too.
C1_Witness ==
  /\ last.op = "append_event" /\ last.ok /\ last.res.inserted
  /\ last.res.seq_no >= 4
  /\ Cardinality(EpisodesOfLog(db)) >= 2
  /\ last.res.event_id > last.res.seq_no

\* The stored event of the key of RawEvents[i], when the key is in the log.
StoredFor(d, i) ==
  d.memory_events[CHOOSE j \in KeyIndex(d, RawEvents[i].idempotency_key) : TRUE]

\* C2: append_event with an idempotency_key that is in the log returns the
\* event_id and seq_no of the stored event with inserted = false and changes
\* neither the log nor any other table, whatever episode_id, event_type and
\* payload it is called with.
C2_StoredKeyReturned ==
  [][\A i \in DOMAIN RawEvents :
       (/\ last'.op = "append_event" /\ last'.arg = ToString(i)
        /\ KeyIndex(db, RawEvents[i].idempotency_key) # {})
       => /\ last'.ok
          /\ last'.res = Result(StoredFor(db, i).event_id, StoredFor(db, i).episode_id,
                                StoredFor(db, i).seq_no, FALSE)
          /\ db' = db]_vars

\* append_event has returned a stored event whose episode, type and payload are
\* not those of the call.
C2_Witness ==
  /\ last.op = "append_event" /\ last.arg = "2" /\ last.ok /\ ~last.res.inserted
  /\ KeyIndex(db, RawEvents[2].idempotency_key) # {}
  /\ StoredFor(db, 2).episode_id # RawEvents[2].episode_id
  /\ StoredFor(db, 2).event_type # RawEvents[2].event_type
  /\ StoredFor(db, 2).payload # RawEvents[2].payload
  /\ last.res.event_id = StoredFor(db, 2).event_id

(***************************************************************************)
(* Transactions.                                                           *)
(***************************************************************************)
MUTATING_OPERATIONS ==
  {"record_episode", "consolidate_episode", "build_pack", "record_dispute",
   "record_outcome", "recover_partial_writes"}

\* C3: a mutating operation that fails leaves none of the events it appended
\* in the committed store: the committed log is the log of before the call.
C3_FailureCommitsNothing ==
  [][(last'.op \in MUTATING_OPERATIONS /\ ~last'.ok)
       => disk'.memory_events = disk.memory_events]_vars

(***************************************************************************)
(* Replay.                                                                 *)
(***************************************************************************)
\* C4: the projections equal their replay from the log: replay_reducers leaves
\* the projection digest as it was.
C4_ReplayKeepsDigest ==
  [][(last'.op = "replay_reducers" /\ last'.ok)
       => projection_digest(db') = projection_digest(db)]_vars

\* C5: a second replay_reducers right after the first, the log unchanged,
\* gives the projection digest of the first.
C5_SecondReplaySameDigest ==
  [][(/\ last.op = "replay_reducers" /\ last.ok
      /\ last'.op = "replay_reducers" /\ last'.ok)
       => /\ db'.memory_events = db.memory_events
          /\ projection_digest(db') = projection_digest(db)]_vars

\* A second replay has run over a log with consolidation decisions, which it
\* has stored again under new decision ids.
C5_Witness ==
  /\ last.op = "replay_reducers" /\ last.ok
  /\ Len(db.consolidation_decisions) >= 2
  /\ db.cards # {}
  /\ db.decision_seq >= 3 * Len(db.consolidation_decisions)

ActiveCards(d) == {c.card_id : c \in {x \in d.cards : x.status = "active"}}

\* C6: full_rebuild, with or without verify_stability, appends no event, leaves
\* episodes, artifacts, evidence_refs and memory_events as they were, and the set
\* of active cards after it is the set of before.
C6_RebuildKeepsSources ==
  [][last'.op = "full_rebuild"
       => /\ db'.memory_events = db.memory_events
          /\ db'.episodes = db.episodes
          /\ db'.artifacts = db.artifacts
          /\ db'.evidence_refs = db.evidence_refs
          /\ ActiveCards(db') = ActiveCards(db)]_vars

\* C6, amended: full_rebuild, with or without verify_stability, appends no event
\* and leaves episodes, artifacts, evidence_refs and memory_events as they were;
\* when every event of the log was stored with apply = true, the set of active
\* cards after it is the set of before.
C6_RebuildKeepsApplied ==
  [][last'.op = "full_rebuild"
       => /\ db'.memory_events = db.memory_events
          /\ db'.episodes = db.episodes
          /\ db'.artifacts = db.artifacts
          /\ db'.evidence_refs = db.evidence_refs
          /\ db.unapplied = {} => ActiveCards(db') = ActiveCards(db)]_vars

\* full_rebuild with verify_stability has rebuilt the active cards of a log whose
\* events were all applied when they were stored.
C6_Witness ==
  /\ last.op = "full_rebuild" /\ last.arg = "TRUE" /\ last.ok /\ last.res.verified
  /\ db.unapplied = {}
  /\ ActiveCards(db) # {}
  /\ db.decision_seq > Len(db.consolidation_decisions)

(***************************************************************************)
(* Idempotent operations.                                                 *)
(***************************************************************************)
\* C7: record_episode called again with the payload of the call before appends
\* no event and changes no projection.
C7_SecondRecordChangesNothing ==
  [][(/\ last.op = "record_episode" /\ last'.op = "record_episode"
      /\ last'.arg = last.arg)
       => /\ db'.memory_events = db.memory_events
          /\ projection_digest(db') = projection_digest(db)]_vars

\* The idempotency key of the outcome_recorded event of Outcomes[i].
OutcomeEvents(d, i) ==
  {j \in 1..Len(d.memory_events) :
     /\ d.memory_events[j].event_type = "outcome_recorded"
     /\ d.memory_events[j].episode_id = Outcomes[i][1]
     /\ d.memory_events[j].payload.outcome_type = Outcomes[i][2]
     /\ d.memory_events[j].payload.evidence_ref_ids = Outcomes[i][3]
     /\ d.memory_events[j].payload.metadata_json = Outcomes[i][4]}

\* C8: record_outcome called again with the arguments of an earlier call appends
\* no second outcome_recorded event, returns inserted = false and leaves outcomes
\* and utility_stats as they were.
C8_SecondOutcomeChangesNothing ==
  [][\A i \in DOMAIN Outcomes :
       /\ Cardinality(OutcomeEvents(db', i)) <= 1
       /\ (/\ last'.op = "record_outcome" /\ last'.arg = ToString(i)
           /\ OutcomeEvents(db, i) # {})
          => /\ last'.ok /\ ~last'.res.inserted
             /\ db'.memory_events = db.memory_events
             /\ db'.outcomes = db.outcomes
             /\ db'.utility_stats = db.utility_stats]_vars

\* record_outcome has been called a second time for an outcome that is stored
\* and that has given a card its utility.
C8_Witness ==
  /\ last.op = "record_outcome" /\ last.ok /\ ~last.res.inserted
  /\ \E o \in db.outcomes : o.event_id = last.res.event_id
  /\ \E u \in db.utility_stats : u.wins + u.losses > 0

(***************************************************************************)
(* Cards.                                                                  *)
(***************************************************************************)
\* C9: every card that is active, needs_recheck or deprecated has an evidence
\* ref linked to it in card_evidence_refs.
C9_CardsHaveEvidence ==
  \A c \in db.cards :
    c.status \in {"active", "needs_recheck", "deprecated"}
      => \E l \in db.card_evidence_refs : l.card_id = c.card_id

\* C10: in every state reached without append_event from outside, the cards of
\* every (scope_tier, kind) that are active or needs_recheck are at most the
\* entry of BUDGET_CAPS, and so they were in every store the last call went
\* through, the one between a card_admitted and its card_superseded included.
C10_WithinBudget ==
  Catalogue[scn].raws = {}
    => /\ Headroom(db) >= 0
       /\ Headroom(disk) >= 0
       /\ last.room >= 0

\* consolidate_episode has superseded a card: the budget of its kind was used up
\* after the card_admitted and is not after the card_superseded.
C10_Witness ==
  /\ Catalogue[scn].raws = {}
  /\ last.op = "consolidate_episode" /\ last.ok
  /\ last.room = 0
  /\ Headroom(db) = 1
  /\ db.memory_events[Len(db.memory_events)].event_type = "card_superseded"
  /\ db.memory_events[Len(db.memory_events) - 1].event_type = "card_admitted"
  /\ Len(db.memory_events) = last.res.event_id

(***************************************************************************)
(* Consolidation.                                                          *)
(***************************************************************************)
\* The card_admitted events of an episode whose card is of the kind.
AdmittedEvents(d, episode_id, kind) ==
  {i \in 1..Len(d.memory_events) :
     /\ d.memory_events[i].episode_id = episode_id
     /\ d.memory_events[i].event_type = "card_admitted"
     /\ d.memory_events[i].payload.card.kind = kind}

WithinEpisodeCaps(d) ==
  \A ep \in EpisodesOfLog(d) :
    /\ \A k \in Range(KINDS) :
         Cardinality(AdmittedEvents(d, ep, k)) <= EPISODE_KIND_CAPS[k]
    /\ Cardinality(UNION {AdmittedEvents(d, ep, k) : k \in Range(KINDS)})
         <= EPISODE_SOFT_CAP

\* C11: in every state reached by runs of consolidate_episode (runs of recovery
\* and runs after the episode was recorded again with more evidence included,
\* append_event from outside left out), every episode has at most
\* EPISODE_KIND_CAPS[kind] card_admitted events of each kind and at most
\* EPISODE_SOFT_CAP card_admitted events in all.
C11_WithinEpisodeCaps ==
  Catalogue[scn].raws = {} => WithinEpisodeCaps(db) /\ WithinEpisodeCaps(disk)

\* consolidate_episode has run again for an episode that was recorded again with
\* one more evidence ref, and has rejected a candidate of a kind whose cap the
\* episode had used up in its first run.
C11_Witness ==
  /\ last.op = "consolidate_episode" /\ last.ok /\ last.res.inserted
  /\ last.res.event_id = Len(db.memory_events)
  /\ db.memory_events[Len(db.memory_events)].event_type = "card_rejected"
  /\ db.memory_events[Len(db.memory_events)].payload.reason_code
       = "episode_kind_cap_exceeded"
  /\ Cardinality(AdmittedEvents(db, last.arg, "commitment"))
       = EPISODE_KIND_CAPS["commitment"]
  /\ \E i, j \in 1..Len(db.memory_events) :
       /\ i < j
       /\ db.memory_events[i].episode_id = last.arg
       /\ db.memory_events[j].episode_id = last.arg
       /\ db.memory_events[i].event_type = "card_admitted"
       /\ db.memory_events[j].event_type = "evidence_ref_recorded"

\* The store as it was before event j of log was appended, when d is the store
\* of before the call that appended it: the events of the call before j applied
\* to d, as append_event applied them.
StoreBefore(d, log, j) ==
  ReplayRange([d EXCEPT !.memory_events = SubSeq(log, 1, j - 1)],
              Len(d.memory_events) + 1, j - 1)

\* The active or needs_recheck cards with the kind, scope and topic of the card.
Predecessors(d, card) ==
  {c \in d.cards : /\ c.status \in LiveStatuses /\ c.kind = card.kind
                   /\ c.scope_tier = card.scope_tier /\ c.scope_id = card.scope_id
                   /\ c.topic_key = card.topic_key}

\* The most recently updated card of S.
MostRecent(S) == CHOOSE c \in S : \A x \in S \ {c} : RecentFirst(c, x)

\* Event j of log admits its card as the successor of pred: it names pred, the
\* next event is the card_superseded of pred, and pred is deprecated after it.
SupersededBy(d, log, j, pred) ==
  /\ log[j].payload.card.supersedes_card_id = pred
  /\ j + 1 <= Len(log)
  /\ log[j + 1].event_type = "card_superseded"
  /\ log[j + 1].payload.old_card_id = pred
  /\ log[j + 1].payload.new_card_id = log[j].payload.card.card_id
  /\ CardRow(StoreBefore(d, log, j + 2), pred).status = "deprecated"

AdmissionSupersedes(d, log, j, preds) ==
  preds # {} => SupersededBy(d, log, j, MostRecent(preds).card_id)

\* C12: every card_admitted event that a consolidation appends for a card of a
\* normative kind, while an active or needs_recheck card of its kind, scope and
\* topic_key exists, names the most recently updated of these cards as
\* supersedes_card_id, is followed at once by the card_superseded event of that
\* card, and that card is deprecated after it.
C12_AdmissionSupersedes ==
  [][last'.op \in {"consolidate_episode", "recover_partial_writes"}
       => \A j \in (Len(db.memory_events) + 1)..Len(db'.memory_events) :
            (/\ db'.memory_events[j].event_type = "card_admitted"
             /\ db'.memory_events[j].payload.card.kind \in NORMATIVE_KINDS)
            => AdmissionSupersedes(db, db'.memory_events, j,
                 Predecessors(StoreBefore(db, db'.memory_events, j),
                              db'.memory_events[j].payload.card))]_vars

(***************************************************************************)
(* Packs.                                                                  *)
(***************************************************************************)
\* The entries of a selected list whose kind is one of kinds.
OfKinds(sel, kinds) == {i \in 1..Len(sel) : sel[i].kind \in kinds}

PackWithinCaps(sel) ==
  /\ Len(sel) <= PACK_TOTAL_CAP
  /\ \A i, j \in 1..Len(sel) : i # j => sel[i].card_id # sel[j].card_id
  /\ Cardinality(OfKinds(sel, {"preference", "constraint", "commitment"}))
       <= PACK_SLOT_CAPS["constraints_commitments"]
  /\ Cardinality(OfKinds(sel, {"negative_result"})) <= PACK_SLOT_CAPS["negative_result"]
  /\ Cardinality(OfKinds(sel, {"tactic"})) <= PACK_SLOT_CAPS["tactic"]
  /\ Cardinality(OfKinds(sel, {"fact"})) <= PACK_SLOT_CAPS["fact"]
  /\ \A i \in 1..Len(sel) :
       Cardinality({j \in 1..Len(sel) : sel[j].topic_key = sel[i].topic_key})
         <= PACK_TOPIC_CAP

\* C13: the selected list of every pack that build_pack has recorded has at most
\* PACK_TOTAL_CAP cards, no card twice, at most PACK_SLOT_CAPS cards of each slot
\* (preference, constraint and commitment share one slot) and at most
\* PACK_TOPIC_CAP cards of one topic_key, also when the pack starts with the
\* negative_result card that follows a tool_failure.
C13_PackWithinCaps ==
  /\ \A p \in db.pack_snapshots : PackWithinCaps(p.selected_cards)
  /\ \A i \in 1..Len(db.memory_events) :
       db.memory_events[i].event_type = "exposure_recorded"
         => PackWithinCaps(db.memory_events[i].payload.pack_snapshot.selected_cards)

\* The snapshot of the pack of the last call, a build_pack that has returned.
LastSnapshot == db.memory_events[last.res.event_id].payload.pack_snapshot

\* build_pack has filled a pack after a tool_failure: the pack starts with a
\* negative_result card that is not the best ranked card, it has PACK_TOTAL_CAP
\* cards, two of its slots and a topic are full, and cards were left out.
C13_Witness ==
  /\ last.op = "build_pack" /\ last.ok /\ last.res.inserted
  /\ db.memory_events[last.res.event_id].event_type = "exposure_recorded"
  /\ has_recent_failure(db, db.memory_events[last.res.event_id].episode_id)
  /\ Len(LastSnapshot.selected_cards) = PACK_TOTAL_CAP
  /\ Len(LastSnapshot.ranked_candidates) > PACK_TOTAL_CAP
  /\ LastSnapshot.selected_cards[1].kind = "negative_result"
  /\ LastSnapshot.ranked_candidates[1].kind # "negative_result"
  /\ Cardinality(OfKinds(LastSnapshot.selected_cards,
                         {"preference", "constraint", "commitment"}))
       = PACK_SLOT_CAPS["constraints_commitments"]
  /\ Cardinality(OfKinds(LastSnapshot.selected_cards, {"tactic"}))
       = PACK_SLOT_CAPS["tactic"]
  /\ \E i, j \in 1..Len(LastSnapshot.selected_cards) :
       /\ i # j
       /\ LastSnapshot.selected_cards[i].topic_key
            = LastSnapshot.selected_cards[j].topic_key

\* Every selected card of a snapshot is one of its ranked candidates.
SelectedAreRanked(snap) ==
  \A i \in 1..Len(snap.selected_cards) :
    \E j \in 1..Len(snap.ranked_candidates) :
      snap.ranked_candidates[j].card_id = snap.selected_cards[i].card_id

\* C14: in every pack snapshot that build_pack has recorded, in the projection
\* and in the exposure_recorded event, every card of selected_cards is also one
\* of ranked_candidates, however many candidate cards the store holds.
C14_SelectedAreRanked ==
  /\ \A p \in db.pack_snapshots : SelectedAreRanked(p)
  /\ \A i \in 1..Len(db.memory_events) :
       db.memory_events[i].event_type = "exposure_recorded"
         => SelectedAreRanked(db.memory_events[i].payload.pack_snapshot)

\* The positions after the first n of the log whose event is an exposure_recorded.
NewExposureEvents(log, n) ==
  {j \in (n + 1)..Len(log) : log[j].event_type = "exposure_recorded"}

\* The rows of the exposures projection are, for the pack of the snapshot, one
\* row per selected card, at its 1-based position and on the pack's channel.
ExposuresMatch(d, snap) ==
  /\ Cardinality({e \in d.exposures : e.pack_id = snap.pack_id})
       = Len(snap.selected_cards)
  /\ \A i \in 1..Len(snap.selected_cards) :
       Cardinality({e \in d.exposures :
                      /\ e.pack_id = snap.pack_id
                      /\ e.card_id = snap.selected_cards[i].card_id}) = 1
  /\ \A e \in d.exposures :
       e.pack_id = snap.pack_id
         => /\ e.channel = snap.channel
            /\ e.rank_position \in 1..Len(snap.selected_cards)
            /\ snap.selected_cards[e.rank_position].card_id = e.card_id

\* C15: every build_pack that returns appends exactly one exposure_recorded
\* event, also when it selects no card, and after it the exposures projection
\* holds for the pack of that event exactly one row per selected card, whose
\* rank_position is the card's 1-based position in the selected list and whose
\* channel is the channel of the pack.
C15_OneExposureEvent ==
  [][(last'.op = "build_pack" /\ last'.ok)
       => /\ Cardinality(NewExposureEvents(db'.memory_events, Len(db.memory_events))) = 1
          /\ \A j \in NewExposureEvents(db'.memory_events, Len(db.memory_events)) :
               /\ j = last'.res.event_id
               /\ \A p \in db.pack_snapshots :
                    p.pack_id # db'.memory_events[j].payload.pack_snapshot.pack_id
               /\ ExposuresMatch(db', db'.memory_events[j].payload.pack_snapshot)]_vars

\* build_pack has recorded a pack with a selected card, and before it a pack for
\* which nothing was selected: that pack has its snapshot and its event, and no
\* exposure row.
C15_Witness ==
  /\ last.op = "build_pack" /\ last.ok /\ last.res.inserted
  /\ db.memory_events[last.res.event_id].event_type = "exposure_recorded"
  /\ Len(LastSnapshot.selected_cards) >= 1
  /\ \E p \in db.pack_snapshots :
       /\ p.selected_cards = <<>>
       /\ \A e \in db.exposures : e.pack_id # p.pack_id
       /\ \E j \in 1..Len(db.memory_events) :
            /\ db.memory_events[j].event_type = "exposure_recorded"
            /\ db.memory_events[j].payload.pack_snapshot.pack_id = p.pack_id

(***************************************************************************)
(* Disputes.                                                               *)
(***************************************************************************)
\* The summed weight of the card's disputes, in tenths.
DecimalMass(d, card_id) == SeqSum(DisputeWeights(d, card_id))

\* The positions after the first n of the log whose event changes the status of
\* the card.
NewStatusChanges(log, n, card_id) ==
  {j \in (n + 1)..Len(log) :
     /\ log[j].event_type = "card_status_changed"
     /\ log[j].payload.card_id = card_id}

\* What a record_dispute call on the card has done to its status, from the store
\* d before the call to the store e after it, whose log is log.
DisputeStep(d, e, log, card_id, threshold) ==
  CASE CardRow(d, card_id).status = "active" /\ DecimalMass(e, card_id) < threshold ->
         /\ NewStatusChanges(log, Len(d.memory_events), card_id) = {}
         /\ CardRow(e, card_id).status = "active"
    [] /\ CardRow(d, card_id).status = "active"
       /\ DecimalMass(d, card_id) < threshold
       /\ DecimalMass(e, card_id) >= threshold ->
         /\ Cardinality(NewStatusChanges(log, Len(d.memory_events), card_id)) = 1
         /\ \A j \in NewStatusChanges(log, Len(d.memory_events), card_id) :
              /\ log[j].payload.from_status = "active"
              /\ log[j].payload.to_status = "needs_recheck"
         /\ CardRow(e, card_id).status = "needs_recheck"
    [] CardRow(d, card_id).status = "needs_recheck" ->
         NewStatusChanges(log, Len(d.memory_events), card_id) = {}
    [] OTHER -> TRUE

\* C16: a record_dispute call on an active card that leaves the summed weight of
\* the card's disputes below the threshold of the card's scope tier appends no
\* card_status_changed event and leaves the card active; the first call that
\* brings the sum to the threshold or above it appends exactly one
\* card_status_changed event from active to needs_recheck; and a call on the
\* card once it is needs_recheck appends no card_status_changed event.
C16_DisputeThreshold ==
  [][\A i \in Catalogue[scn].disputes :
       (/\ last'.op = "record_dispute" /\ last'.ok /\ last'.arg = ToString(i)
        /\ HasCard(db, Disputes[i][2]))
       => DisputeStep(db, db', db'.memory_events, Disputes[i][2],
                      DISPUTE_THRESHOLDS[CardRow(db, Disputes[i][2]).scope_tier])]_vars

(***************************************************************************)
(* Duplicates.                                                             *)
(***************************************************************************)
\* The positions of the log up to j at which the candidate of event j is proposed.
ProposalsOf(log, j) ==
  {k \in 1..j : /\ log[k].event_type = "candidate_proposed"
                /\ log[k].payload.candidate_id = log[j].payload.candidate_id}

\* Some active or needs_recheck card of the candidate's kind and scope is as
\* close to the candidate as a duplicate is, or has the candidate's statement.
HasDuplicate(d, cand) ==
  \E c \in ScopeCards(d, cand) :
    \/ /\ jaccard_similarity(cand.statement, c.statement) >= 800
       /\ cosine_similarity_text(cand.statement, c.statement) >= 920
    \/ c.statement = cand.statement

\* Event j of log is the rejection of its candidate as a duplicate.
RejectedAsDuplicate(log, j) ==
  /\ log[j].event_type = "card_rejected"
  /\ log[j].payload.reason_code = "duplicate_of_existing_card"

\* C17: when consolidate_episode decides on a candidate for which some active or
\* needs_recheck card of the same kind, scope_tier and scope_id has a lexical
\* similarity of at least 0.80 and a cosine similarity of at least 0.92, as is
\* the case when a card has the statement of the candidate, the decision is a
\* card_rejected event with reason_code duplicate_of_existing_card: no card is
\* admitted or merged for the candidate.
C17_DuplicateRejected ==
  [][(last'.op = "consolidate_episode" /\ Catalogue[scn].raws = {})
       => \A j \in (Len(db.memory_events) + 1)..Len(db'.memory_events) :
            (/\ db'.memory_events[j].event_type
                  \in {"card_rejected", "card_admitted", "card_merged"}
             /\ ProposalsOf(db'.memory_events, j) # {}
             /\ \A k \in ProposalsOf(db'.memory_events, j) :
                  HasDuplicate(StoreBefore(db, db'.memory_events, j),
                               db'.memory_events[k].payload))
            => RejectedAsDuplicate(db'.memory_events, j)]_vars

(***************************************************************************)
(* Utility.                                                                *)
(***************************************************************************)
\* The seq_nos of the terminal outcomes of the episode.
TerminalSeqs(d, episode_id) ==
  {SeqNoOf(d, o.event_id) :
     o \in {x \in d.outcomes : /\ x.episode_id = episode_id
                               /\ x.outcome_type \in TERMINAL_OUTCOMES}}

\* The episodes whose outcomes are attributed: some outcome has evidence, and
\* some outcome is terminal.
Attributed(d) ==
  {ep \in {o.episode_id : o \in d.outcomes} :
     /\ \E o \in d.outcomes : o.episode_id = ep /\ o.evidence_ref_ids # <<>>
     /\ TerminalSeqs(d, ep) # {}}

\* The auto_pack exposures of tactic cards of the episode whose event is before
\* the earliest terminal outcome.
CreditPool(d, episode_id) ==
  {e \in d.exposures :
     /\ e.episode_id = episode_id /\ e.channel = "auto_pack"
     /\ IsTactic(d, e.card_id)
     /\ SeqNoOf(d, e.source_event_id) < Min2(TerminalSeqs(d, episode_id))}

\* x is before y by (rank_position asc, score_total desc, card_id asc); two
\* exposures of one card at one rank and score are taken in the order of their
\* events.
CreditOrder(d, x, y) ==
  \/ x.rank_position < y.rank_position
  \/ x.rank_position = y.rank_position /\ x.score_total > y.score_total
  \/ /\ x.rank_position = y.rank_position /\ x.score_total = y.score_total
     /\ CardKey(CardRow(d, x.card_id)) < CardKey(CardRow(d, y.card_id))
  \/ /\ x.rank_position = y.rank_position /\ x.score_total = y.score_total
     /\ x.card_id = y.card_id /\ x.source_event_id < y.source_event_id

\* The first two exposures of the pool.
FirstTwoOf(d, pool) ==
  {x \in pool : Cardinality({y \in pool : CreditOrder(d, y, x)}) < 2}

\* The number of first-two exposures of the card over the attributed episodes
\* that have an outcome of one of the types.
Credit(d, card_id, types) ==
  SetSum({ep \in Attributed(d) :
            \E o \in d.outcomes : o.episode_id = ep /\ o.outcome_type \in types},
         LAMBDA ep : Cardinality({x \in FirstTwoOf(d, CreditPool(d, ep)) :
                                    x.card_id = card_id}))

\* The wins and the losses of the card in utility_stats: 0 without a row.
StatOf(d, card_id, field) ==
  SetSum({u \in d.utility_stats : u.card_id = card_id}, LAMBDA u : u[field])

\* C18: for every episode that has an outcome with evidence refs, the wins, for
\* a success outcome, and the losses, for a failure outcome, of utility_stats are
\* those of the first two exposures, by (rank_position asc, score_total desc,
\* card_id asc), among the episode's auto_pack exposures of tactic cards whose
\* event has a seq_no below that of the episode's earliest terminal outcome: an
\* exposure on another channel, an exposure after that outcome and the third
\* exposure in that order add no win and no loss.
C18_FirstTwoCredited ==
  \A c \in db.cards :
    /\ StatOf(db, c.card_id, "wins")
         = Credit(db, c.card_id, {"tool_success", "user_confirmed_helpful"})
    /\ StatOf(db, c.card_id, "losses")
         = Credit(db, c.card_id, {"tool_failure", "user_corrected"})

\* An episode has a failure outcome with evidence after three or more auto_pack
\* exposures of tactic cards: a card of the first two exposures has the losses,
\* and a tactic card that was exposed in that episode before the outcome has
\* none.
C18_Witness ==
  \E ep \in Attributed(db) :
    /\ Cardinality(CreditPool(db, ep)) >= 3
    /\ \E x \in FirstTwoOf(db, CreditPool(db, ep)) : StatOf(db, x.card_id, "losses") >= 1
    /\ \E x \in CreditPool(db, ep) :
         /\ StatOf(db, x.card_id, "losses") = 0
         /\ StatOf(db, x.card_id, "wins") = 0
         /\ StatOf(db, x.card_id, "reuse") >= 1

(***************************************************************************)
(* Recording.                                                              *)
(***************************************************************************)
\* The seq_nos of the events of the episode that have one of the types.
SeqNosOfTypes(d, episode_id, types) ==
  {d.memory_events[i].seq_no :
     i \in {j \in 1..Len(d.memory_events) :
              /\ d.memory_events[j].episode_id = episode_id
              /\ d.memory_events[j].event_type \in types}}

\* C19: when record_episode has returned for an episode, on the first call or on
\* a repeat call with more artifacts or evidence refs, the episode has exactly
\* one consolidation_triggered event, and none of its episode_recorded,
\* artifact_recorded and evidence_ref_recorded events has a greater seq_no.
C19_TriggerIsLast ==
  (last.op = "record_episode" /\ last.ok)
    => /\ Cardinality({i \in 1..Len(db.memory_events) :
                         /\ db.memory_events[i].episode_id = last.res.episode_id
                         /\ db.memory_events[i].event_type = "consolidation_triggered"}) = 1
       /\ \A t \in SeqNosOfTypes(db, last.res.episode_id, {"consolidation_triggered"}) :
            \A r \in SeqNosOfTypes(db, last.res.episode_id,
                              {"episode_recorded", "artifact_recorded",
                               "evidence_ref_recorded"}) : r < t

(***************************************************************************)
(* Bad input.                                                              *)
(***************************************************************************)
\* The call has bad input in the store d: consolidate_episode of an episode that
\* is not there, record_dispute with an evidence ref that is not there,
\* record_outcome with a type that is not terminal, build_pack with a channel
\* that is not one of CHANNELS.
BadInput(d, call) ==
  \/ call.op = "consolidate_episode" /\ ~HasEpisode(d, call.arg)
  \/ /\ call.op = "record_dispute"
     /\ \E i \in DOMAIN Disputes : call.arg = ToString(i) /\ ~HasRef(d, Disputes[i][3])
  \/ /\ call.op = "record_outcome"
     /\ \E i \in DOMAIN Outcomes :
          call.arg = ToString(i) /\ Outcomes[i][2] \notin TERMINAL_OUTCOMES
  \/ /\ call.op = "build_pack"
     /\ \E i \in DOMAIN Packs : call.arg = ToString(i) /\ Packs[i][3] \notin CHANNELS

\* C20: a call of consolidate_episode, record_dispute, record_outcome or build_pack
\* with bad input raises, and leaves the event log and every projection as they
\* were: no event is appended, not a card_archived of archive_hygiene_pass either.
C20_BadInputChangesNothing ==
  [][BadInput(db, last') => (~last'.ok /\ db' = db /\ disk' = disk)]_vars

\* build_pack was called with a channel that is not one of CHANNELS and has
\* raised, at a time when archive_hygiene_pass has a card to archive.
C20_Witness ==
  /\ last.op = "build_pack" /\ ~last.ok
  /\ BadInput(db, last)
  /\ \E i \in DOMAIN Packs :
       /\ last.arg = ToString(i)
       /\ Len(archive_hygiene_pass(Conn(db, disk), Packs[i][1], clock).db.memory_events)
            > Len(db.memory_events)

(***************************************************************************)
(* Missing rows.                                                           *)
(***************************************************************************)
\* The card the raw event is about, NONE when it is about none.
RawCardOf(i) == Get(RawEvents[i].payload, "card_id")

\* C21: append_event of a card_status_changed, card_deprecated, card_archived,
\* card_superseded or dispute_recorded event for a card_id that has no row in
\* cards, its reducer applied, succeeds: the event is stored, no card is made and
\* no card_status_history row of that card_id is written.
C21_MissingCardIsNoOp ==
  [][\A i \in Catalogue[scn].raws :
       (/\ last'.op = "append_event" /\ last'.arg = ToString(i)
        /\ RawEvents[i].event_type
             \in {"card_status_changed", "card_deprecated", "card_archived",
                  "card_superseded", "dispute_recorded"}
        /\ HasEpisode(db, RawEvents[i].episode_id)
        /\ KeyIndex(db, RawEvents[i].idempotency_key) = {}
        /\ ~HasCard(db, RawCardOf(i)))
       => /\ last'.ok
          /\ KeyIndex(db', RawEvents[i].idempotency_key) # {}
          /\ ~HasCard(db', RawCardOf(i))
          /\ \A h \in db'.card_status_history : h.card_id # RawCardOf(i)]_vars

(* Two connections. *)
PeerKey == RawEvents[peer.raw].idempotency_key

SeqNoStoredOnce(d) ==
  \A i, j \in 1..Len(d.memory_events) :
    (/\ d.memory_events[i].episode_id = d.memory_events[j].episode_id
     /\ d.memory_events[i].seq_no = d.memory_events[j].seq_no) => i = j

\* C22: when two append_event calls of two connections interleave, the second
\* one having passed its existence check before the first one inserted the
\* event of the same idempotency_key, the second call does not fail: it
\* returns the stored identifiers with inserted = false, and the key is stored
\* once; and no episode ever has two events of one seq_no.
C22_InterleavedAppendReturnsStored ==
  [][/\ (/\ peer.pc = "numbered"
          /\ peer'.pc = "idle"
          /\ KeyIndex(disk, PeerKey) # {})
         => /\ last'.ok
            /\ ~last'.res.inserted
            /\ \E i \in KeyIndex(disk, PeerKey) :
                 last'.res.event_id = disk.memory_events[i].event_id
            /\ Cardinality(KeyIndex(disk', PeerKey)) = 1
     /\ SeqNoStoredOnce(disk')]_vars

\* No episode has two events of one seq_no, whatever the connections do.
SeqNoUnique == SeqNoStoredOnce(db) /\ SeqNoStoredOnce(disk)

\* The second connection has inserted an event after the first one appended
\* another event to the same episode.
PeerInserted ==
  /\ last.op = "peer_append_event"
  /\ last.ok
  /\ last.res.inserted
  /\ last.res.seq_no > 2

(* Merges. *)
\* Event j of log merges its candidate into the card.
MergedInto(log, j, card_id) ==
  /\ log[j].event_type = "card_merged"
  /\ log[j].payload.target_card_id = card_id

\* C23: when consolidate_episode decides on a candidate whose lower-cased
\* statement is the lower-cased statement of an active or needs_recheck card of
\* its kind, scope_tier and scope_id, the decision is a card_merged event whose
\* target is that card: the candidate is neither admitted nor rejected.
C23_ExactStatementMerged ==
  [][(last'.op = "consolidate_episode" /\ Catalogue[scn].raws = {})
       => \A j \in (Len(db.memory_events) + 1)..Len(db'.memory_events) :
            (/\ db'.memory_events[j].event_type
                  \in {"card_rejected", "card_admitted", "card_merged"}
             /\ ProposalsOf(db'.memory_events, j) # {}
             /\ \A k \in ProposalsOf(db'.memory_events, j) :
                  find_exact_merge_target(StoreBefore(db, db'.memory_events, j),
                                          db'.memory_events[k].payload) # NONE)
            => \A k \in ProposalsOf(db'.memory_events, j) :
                 MergedInto(db'.memory_events, j,
                   find_exact_merge_target(StoreBefore(db, db'.memory_events, j),
                                           db'.memory_events[k].payload))]_vars

(* Decisions. *)
\* The positions of the log after k at which the candidate proposed at k is
\* rejected, merged or admitted.
DecisionsOf(log, k) ==
  {j \in (k + 1)..Len(log) :
     /\ log[j].event_type \in {"card_rejected", "card_merged", "card_admitted"}
     /\ log[j].payload.candidate_id = log[k].payload.candidate_id}

DecisionTypesOf(log, k) == {log[j].event_type : j \in DecisionsOf(log, k)}

\* C24: in every state the operations leave, every candidate_proposed event of
\* the log is followed by exactly one card_rejected, card_merged or
\* card_admitted event of its candidate_id, and no candidate has both a
\* card_admitted and a card_rejected event, however often consolidate_episode
\* has run.
C24_OneDecisionPerCandidate ==
  Catalogue[scn].raws = {}
    => \A k \in 1..Len(db.memory_events) :
         db.memory_events[k].event_type = "candidate_proposed"
           => /\ Cardinality(DecisionsOf(db.memory_events, k)) = 1
              /\ ~({"card_admitted", "card_rejected"}
                     \subseteq DecisionTypesOf(db.memory_events, k))

(* Novelty. *)
\* Some active or needs_recheck card of the candidate's kind and scope is as
\* close to the candidate as the novelty gate allows no card to be.
HasNearCard(d, cand) ==
  \E c \in ScopeCards(d, cand) :
    \/ jaccard_similarity(cand.statement, c.statement) >= 650
    \/ cosine_similarity_text(cand.statement, c.statement) >= 780

NoDuplicateCard(d, cand) ==
  \A c \in ScopeCards(d, cand) :
    ~(/\ jaccard_similarity(cand.statement, c.statement) >= 800
      /\ cosine_similarity_text(cand.statement, c.statement) >= 920)

\* Event j of log is the rejection of its candidate by the novelty gate.
RejectedAsNotNovel(log, j) ==
  /\ log[j].event_type = "card_rejected"
  /\ log[j].payload.reason_code = "novelty_below_threshold"

\* C25: when consolidate_episode decides on a candidate that has its required
\* evidence, and some active or needs_recheck card of its kind, scope_tier and
\* scope_id has a lexical similarity of at least 0.65 or a cosine similarity of
\* at least 0.78 to it while none is a duplicate of it, the decision is a
\* card_rejected event with reason_code novelty_below_threshold: the candidate
\* is not admitted.
C25_NoveltyGateComparesEachCard ==
  [][(last'.op = "consolidate_episode" /\ Catalogue[scn].raws = {})
       => \A j \in (Len(db.memory_events) + 1)..Len(db'.memory_events) :
            (/\ db'.memory_events[j].event_type
                  \in {"card_rejected", "card_admitted", "card_merged"}
             /\ ProposalsOf(db'.memory_events, j) # {}
             /\ \A k \in ProposalsOf(db'.memory_events, j) :
                  /\ validate_evidence_invariant(StoreBefore(db, db'.memory_events, j),
                                                 db'.memory_events[k].payload) = "ok"
                  /\ HasNearCard(StoreBefore(db, db'.memory_events, j),
                                 db'.memory_events[k].payload)
                  /\ NoDuplicateCard(StoreBefore(db, db'.memory_events, j),
                                     db'.memory_events[k].payload))
            => RejectedAsNotNovel(db'.memory_events, j)]_vars

(* Evidence by kind. *)
\* The kinds of the evidence refs the card is linked to.
LinkedRefKinds(d, card_id) ==
  {r.ref_kind : r \in {x \in d.evidence_refs :
                          \E l \in d.card_evidence_refs :
                            l.card_id = card_id /\ l.evidence_ref_id = x.evidence_ref_id}}

CardHasRequiredEvidence(d, c) ==
  /\ c.kind \in NORMATIVE_KINDS => "user_span" \in LinkedRefKinds(d, c.card_id)
  /\ c.kind = "tactic" => {"tool_output", "doc_span"} \cap LinkedRefKinds(d, c.card_id) # {}
  /\ c.kind = "negative_result"
       => /\ "tool_output" \in LinkedRefKinds(d, c.card_id)
          /\ contains_failure_signal(c.statement)

\* C26: in every state the operations leave, every preference, constraint or
\* commitment card is linked to a user_span evidence ref, every tactic card to
\* a tool_output or doc_span evidence ref, and every negative_result card to a
\* tool_output evidence ref and its statement has a failure signal.
C26_CardsKeepRequiredEvidence ==
  \A c \in db.cards : CardHasRequiredEvidence(db, c)

\* The same without append_event from outside the engine.
RequiredEvidenceFromConsolidation ==
  Catalogue[scn].raws = {} => \A c \in db.cards : CardHasRequiredEvidence(db, c)

(* Disputes of a card admitted again. *)
\* C27: when record_dispute has completed for a card that has a row and whose
\* summed dispute weight is then at least the threshold of its scope tier, the
\* card is not active; and the call returns status_changed = true only if it
\* moved the card from active to needs_recheck.  This includes a card that
\* was superseded and admitted again.
C27_DisputedCardLeavesActive ==
  [][\A i \in Catalogue[scn].disputes :
       (/\ last'.op = "record_dispute" /\ last'.ok /\ last'.arg = ToString(i)
        /\ HasCard(db, Disputes[i][2]))
       => /\ FloatGeq(DisputeMass(db', Disputes[i][2]),
                      DISPUTE_THRESHOLDS[CardRow(db', Disputes[i][2]).scope_tier])
               => CardRow(db', Disputes[i][2]).status # "active"
          /\ last'.res.changed
               => /\ CardRow(db, Disputes[i][2]).status = "active"
                  /\ CardRow(db', Disputes[i][2]).status = "needs_recheck"]_vars

(* The dedup sweep. *)
\* The log has the card_merged event of the loser into the winner before the
\* card_archived event of the loser.
MergedThenArchived(log, winner_id, loser_id) ==
  \E m, a \in 1..Len(log) :
    /\ m < a
    /\ log[m].event_type = "card_merged"
    /\ log[m].payload.target_card_id = winner_id
    /\ log[m].payload.reason_code = "daily_dedup_merge"
    /\ log[a].event_type = "card_archived"
    /\ log[a].payload.card_id = loser_id

\* What the sweep owes a group whose rows were rows in the store d, in the
\* store e it leaves.
GroupDeduped(d, e, rows) ==
  /\ CardRow(e, rows[1].card_id).status \in LiveStatuses
  /\ \A k \in 2..Len(rows) :
       IsDuplicate(rows[1], rows[k])
         => /\ CardRow(e, rows[k].card_id).status = "archived"
            /\ \A l \in d.card_evidence_refs :
                 l.card_id = rows[k].card_id
                   => [l EXCEPT !.card_id = rows[1].card_id] \in e.card_evidence_refs
            /\ MergedThenArchived(e.memory_events, rows[1].card_id, rows[k].card_id)

\* C28: after run_dedup_daily, for every group of two or more active or
\* needs_recheck cards of one kind, scope_tier and scope_id, the winner by
\* (evidence_count desc, updated_event_id desc, card_id asc) is still active or
\* needs_recheck, every other card of the group with a lexical similarity of at
\* least 0.80 and a cosine similarity of at least 0.92 to the winner is
\* archived, its evidence refs are linked to the winner, and its card_merged
\* event comes before its card_archived event in the log.
C28_DedupArchivesDuplicates ==
  [][last'.op = "run_dedup_daily"
       => \A i \in 1..Len(DedupGroupList(db)) :
            GroupDeduped(db, db', DedupRows(db, DedupGroupList(db)[i]))]_vars

(* The statuses of a pack. *)
\* The cards of the list are active or needs_recheck, in the list and in the
\* store d.
AllLive(d, cards) ==
  \A i \in 1..Len(cards) :
    /\ HasCard(d, cards[i].card_id)
    /\ CardRow(d, cards[i].card_id).status \in LiveStatuses

\* The pack of an exposure_recorded event on channel auto_pack selects and
\* exposes live cards of the store d only.
AutoPackIsLive(d, payload) ==
  payload.channel = "auto_pack"
    => /\ AllLive(d, payload.pack_snapshot.selected_cards)
       /\ AllLive(d, payload.exposures)
       /\ \A i \in 1..Len(payload.pack_snapshot.selected_cards) :
            payload.pack_snapshot.selected_cards[i].status \in LiveStatuses

\* C29: every pack that build_pack records on channel auto_pack selects and
\* exposes only cards that are active or needs_recheck in the store as it is
\* after the archive hygiene pass of the same call, when the cards are ranked;
\* packs of the other channels may select cards of every status.
C29_AutoPackSelectsLiveCards ==
  [][last'.op = "build_pack"
       => \A j \in NewExposureEvents(db'.memory_events, Len(db.memory_events)) :
            AutoPackIsLive(StoreBefore(db, db'.memory_events, j),
                           db'.memory_events[j].payload)]_vars

\* build_pack has recorded an auto_pack pack that selects a card while a
\* deprecated card that has the words of the query is in the store, after a
\* pack on channel search that selected that deprecated card.
C29_Witness ==
  /\ last.op = "build_pack" /\ last.ok /\ last.res.inserted
  /\ db.memory_events[last.res.event_id].event_type = "exposure_recorded"
  /\ LastSnapshot.channel = "auto_pack"
  /\ LastSnapshot.selected_cards # <<>>
  /\ \E c \in db.cards :
       /\ c.status = "deprecated"
       /\ jaccard_similarity(LastSnapshot.query_text, c.statement) = 1000
       /\ \E p \in db.pack_snapshots :
            /\ p.channel = "search"
            /\ \E i \in 1..Len(p.selected_cards) :
                 /\ p.selected_cards[i].card_id = c.card_id
                 /\ p.selected_cards[i].status = "deprecated"

\* build_pack on channel auto_pack has archived a card in its hygiene pass and
\* has then ranked the cards without it.
ArchivedBeforeRanking ==
  /\ last.op = "build_pack" /\ last.ok /\ last.res.inserted
  /\ LastSnapshot.channel = "auto_pack"
  /\ last.res.event_id > 1
  /\ db.memory_events[last.res.event_id - 1].event_type = "card_archived"
  /\ db.memory_events[last.res.event_id - 1].payload.reason_code
       = "archive_hygiene_low_signal"
  /\ \A i \in 1..Len(LastSnapshot.ranked_candidates) :
       LastSnapshot.ranked_candidates[i].card_id
         # db.memory_events[last.res.event_id - 1].payload.card_id

(* The ledger. *)
\* The positions of the log whose event is an event of the type for the episode.
EventsOfType(log, episode_id, type) ==
  {i \in 1..Len(log) : log[i].episode_id = episode_id /\ log[i].event_type = type}

\* The positions of the log whose event is a consolidation event of the episode
\* with the reason_code.
EventsWithReason(log, episode_id, reason) ==
  {i \in 1..Len(log) : /\ log[i].episode_id = episode_id
                        /\ log[i].event_type \in CONSOLIDATION_EVENTS
                        /\ Get(log[i].payload, "reason_code") = reason}

ReasonsOf(log, episode_id) ==
  {Get(log[i].payload, "reason_code") :
     i \in {j \in 1..Len(log) : /\ log[j].episode_id = episode_id
                                 /\ log[j].event_type \in CONSOLIDATION_EVENTS}} \ {NONE}

\* The ledger row has the counts and the reason histogram of the log.
LedgerMatchesLog(log, row) ==
  /\ row.proposed_count
       = Cardinality(EventsOfType(log, row.episode_id, "candidate_proposed"))
  /\ row.admitted_count = Cardinality(EventsOfType(log, row.episode_id, "card_admitted"))
  /\ row.rejected_count = Cardinality(EventsOfType(log, row.episode_id, "card_rejected"))
  /\ row.merged_count = Cardinality(EventsOfType(log, row.episode_id, "card_merged"))
  /\ row.superseded_count
       = Cardinality(EventsOfType(log, row.episode_id, "card_superseded"))
  /\ row.archived_count = Cardinality(EventsOfType(log, row.episode_id, "card_archived"))
  /\ row.reason_breakdown
       = {[reason_code |-> r,
           n |-> Cardinality(EventsWithReason(log, row.episode_id, r))]
          : r \in ReasonsOf(log, row.episode_id)}

RowsHaveEvents(d) ==
  /\ \A e \in d.episodes :
       /\ e.episode_id \in EpisodesWith(d, "episode_recorded")
       /\ e.episode_id \in EpisodesWith(d, "consolidation_triggered")
  /\ \A a \in d.artifacts :
       a.artifact_id \in RecordedIds(d, "artifact_recorded", "artifact_id")
  /\ \A r \in d.evidence_refs :
       r.evidence_ref_id \in RecordedIds(d, "evidence_ref_recorded", "evidence_ref_id")

\* Nothing recovery looks for is missing: the rows have their events and every
\* episode with evidence has a candidate_proposed event.
NothingMissing(d) ==
  /\ RowsHaveEvents(d)
  /\ \A r \in d.evidence_refs : r.episode_id \in EpisodesWith(d, "candidate_proposed")

\* C31: after recover_partial_writes completes, every episode row has an
\* episode_recorded and a consolidation_triggered event, every artifact row an
\* artifact_recorded event and every evidence ref row an evidence_ref_recorded
\* event; a second recover_partial_writes right after it appends no event; and
\* on a store where nothing is missing recovery appends no event.
C31_RecoveryRestoresEvents ==
  [][(last'.op = "recover_partial_writes" /\ last'.ok)
       => /\ RowsHaveEvents(db')
          /\ recover_partial_writes(Conn(db', disk'), clock').db.memory_events
               = db'.memory_events
          /\ NothingMissing(db) => db'.memory_events = db.memory_events]_vars

\* recover_partial_writes has appended the events of rows that had none.
C31_Witness ==
  /\ last.op = "recover_partial_writes"
  /\ last.ok
  /\ RowsHaveEvents(db)
  /\ \E i \in 1..Len(db.memory_events) :
       /\ db.memory_events[i].event_type = "consolidation_triggered"
       /\ db.memory_events[i].payload.trigger = "recovery_missing_trigger"

(***************************************************************************)
(* Embedding migration and rebuild.                                        *)
(***************************************************************************)
\* The embeddings of the cards the migration selects carry the tag to_model.
MigratedTo(before, after, to_model, from_model) ==
  \A c \in MigratedCards(before, from_model) :
    EmbeddingModelOf(after, c.card_id) = to_model

\* C32: after migrate_embeddings(to_model) the embedding of every migrated card
\* carries the tag to_model, the change is in the committed store, which is
\* what a later session reads, and a replay_reducers run after the migration
\* leaves the projection digest unchanged.
C32_MigrationSurvivesRebuild ==
  [][\A i \in DOMAIN Migrations :
       (/\ last'.op = "migrate_embeddings" /\ last'.arg = ToString(i) /\ last'.ok
        /\ MigratedCards(db, Migrations[i][2]) # {})
       => /\ MigratedTo(db, db', Migrations[i][1], Migrations[i][2])
          /\ disk'.card_embeddings = db'.card_embeddings
          /\ projection_digest(replay_reducers(Conn(db', disk')).db)
               = projection_digest(db')]_vars

\* The tag of the migration is on the embedding of a card in the connection
\* and not in the committed store.
MigrationNotCommitted ==
  /\ last.op = "migrate_embeddings"
  /\ last.ok
  /\ \E e \in db.card_embeddings : e.embedding_model = "m2"
  /\ \A e \in disk.card_embeddings : e.embedding_model = "pseudo-v1"

(***************************************************************************)
(* The reducer invoked again.                                              *)
(***************************************************************************)
\* apply_event with the event e of the log.
Reapplied(d, e) ==
  apply_event(d, e.event_id, e.episode_id, e.event_type, e.payload, e.created_at)

\* The projections: the tables of the digest, the decisions without
\* decision_id, and the index of the cards.
ProjectionsOf(d) == [digest |-> projection_digest(d), cards_fts |-> d.cards_fts]

\* apply_event with e a second time gives the projections of the first time.
SameWhenReapplied(once, e) ==
  ~IsFailed(once)
    => /\ ~IsFailed(Reapplied(once, e))
       /\ ProjectionsOf(Reapplied(once, e)) = ProjectionsOf(once)

\* C33: for every event of the log, of whatever type, invoking apply_event
\* twice in a row with that event leaves all projections, the consolidation
\* decision rows compared without decision_id, in the state one invocation
\* leaves them in.
C33_ReducerIdempotent ==
  \A i \in 1..Len(db.memory_events) :
    SameWhenReapplied(Reapplied(db, db.memory_events[i]), db.memory_events[i])

\* The same for the events that are not consolidation events.
OtherReducersIdempotent ==
  \A i \in 1..Len(db.memory_events) :
    db.memory_events[i].event_type \notin CONSOLIDATION_EVENTS
      => SameWhenReapplied(Reapplied(db, db.memory_events[i]), db.memory_events[i])

(***************************************************************************)
(* Packing and the wall clock.                                             *)
(***************************************************************************)
\* The events a call appended to the log of d, without their timestamps.  The
\* exposure_recorded event holds the ranked list and the selected cards.
AppendedBy(r, d) ==
  [k \in 1..(Len(r.db.memory_events) - Len(d.memory_events)) |->
     [f \in DOMAIN r.db.memory_events[Len(d.memory_events) + k] \ {"created_at"} |->
        r.db.memory_events[Len(d.memory_events) + k][f]]]

\* What build_pack(Packs[i]) does on the store of the connection at time now.
PackedAt(i, now) ==
  build_pack(Conn(db, disk), Packs[i][1], Packs[i][2], Packs[i][3], uuids, now)

\* C34: started from one store state with the same episode, query and channel,
\* build_pack at two wall-clock times gives the same ranked list, the same
\* selected cards in the same order and the same appended events (the pack_id
\* being the same here).
C34_PackingIgnoresClock ==
  \A i \in Catalogue[scn].packs :
    /\ PackedAt(i, clock).ok = PackedAt(i, MaxClock).ok
    /\ AppendedBy(PackedAt(i, clock), db) = AppendedBy(PackedAt(i, MaxClock), db)

(***************************************************************************)
(* The archive-hygiene pass.                                               *)
(***************************************************************************)
\* The cards of the card_archived events of the hygiene pass among the events
\* of log after the first n.
HygieneArchived(log, n) ==
  {log[j].payload.card_id :
     j \in {k \in (n + 1)..Len(log) :
              /\ log[k].event_type = "card_archived"
              /\ log[k].payload.reason_code = "archive_hygiene_low_signal"}}

\* The card may be archived at the date now: it is active, has no dispute, has
\* utility (wins - losses) + 0.1 * reuse <= 0, and its latest exposure is more
\* than 30 days old whatever the times of day of the exposure and of the call.
MayBeArchived(d, card_id, now) ==
  /\ HasCard(d, card_id)
  /\ CardRow(d, card_id).status = "active"
  /\ \A x \in d.disputes : x.card_id # card_id
  /\ 10 * (UtilityOf(d, card_id).wins - UtilityOf(d, card_id).losses)
       + UtilityOf(d, card_id).reuse <= 0
  /\ \E e \in d.exposures : e.card_id = card_id
  /\ \A e \in d.exposures : e.card_id = card_id => now - e.created_at > THRESHOLD_DAYS

\* Every card the pass counts as archived has status archived.
ReportedAreArchived(before, after, now) ==
  \A i \in 1..Len(StaleRows(before, now)) :
    CardRow(after, StaleRows(before, now)[i].card_id).status = "archived"

\* C35: the archive-hygiene pass of build_pack archives only cards that are
\* active, have dispute mass 0, have utility (wins - losses) + 0.1 * reuse <= 0
\* and whose latest exposure is older than 30 days, never a card without an
\* exposure, with a dispute or exposed within the last 30 days; and every card
\* it reports as archived has status archived afterwards.
C35_HygieneArchivesOnlyStale ==
  [][(last'.op = "build_pack" /\ last'.ok)
       => /\ \A id \in HygieneArchived(db'.memory_events, Len(db.memory_events)) :
               MayBeArchived(db, id, clock)
          /\ ReportedAreArchived(db, db', clock)]_vars

\* The last part of C35 alone: what the pass reports as archived is archived.
HygieneReportsArchived ==
  [][(last'.op = "build_pack" /\ last'.ok) => ReportedAreArchived(db, db', clock)]_vars

\* C35 with the dates compared as the code compares them: a latest exposure 30
\* dates back or more, and the report left aside.
HygieneArchivesByDate ==
  [][(last'.op = "build_pack" /\ last'.ok)
       => \A id \in HygieneArchived(db'.memory_events, Len(db.memory_events)) :
            /\ CardRow(db, id).status = "active"
            /\ \A x \in db.disputes : x.card_id # id
            /\ 10 * (UtilityOf(db, id).wins - UtilityOf(db, id).losses)
                 + UtilityOf(db, id).reuse <= 0
            /\ \E e \in db.exposures : e.card_id = id
            /\ \A e \in db.exposures : e.card_id = id
                 => clock - e.created_at >= THRESHOLD_DAYS
            /\ CardRow(db', id).status = "archived"]_vars

(***************************************************************************)
(* One live card per topic, and the supersession links.                    *)
(***************************************************************************)
\* The live cards of the kind, scope and topic of card c.
LiveOfTopic(d, c) ==
  {x \in d.cards : /\ x.status \in LiveStatuses
                   /\ x.kind = c.kind
                   /\ x.scope_tier = c.scope_tier
                   /\ x.scope_id = c.scope_id
                   /\ x.topic_key = c.topic_key}

OneLivePerTopic(d) ==
  \A c \in d.cards :
    c.kind \in NORMATIVE_KINDS => Cardinality(LiveOfTopic(d, c)) <= 1

\* C36: in every state that ingestion, consolidation, dedup, packing, disputes
\* and replay reach (append_event from outside left aside), after the
\* operation has returned, each (scope_tier, scope_id, topic_key) has at most
\* one card of a kind in {preference, constraint, commitment} whose status is
\* active or needs_recheck.
C36_OneLiveCardPerTopic ==
  Catalogue[scn].raws = {} => OneLivePerTopic(db)

\* The card k supersedes_card_id links away from the card, NONE when the chain
\* ends before that.
RECURSIVE Predecessor(_, _, _)
Predecessor(d, card_id, k) ==
  IF k = 0 \/ card_id = NONE \/ ~HasCard(d, card_id) THEN card_id
  ELSE Predecessor(d, CardRow(d, card_id).supersedes_card_id, k - 1)

\* No chain of supersedes_card_id links comes back to the card it starts from.
Acyclic(d) ==
  \A c \in d.cards :
    \A k \in 1..Cardinality(d.cards) : Predecessor(d, c.card_id, k) # c.card_id

\* C37: in every reachable state, following supersedes_card_id links from any
\* card never returns to a card already visited, and no card has itself as
\* supersedes_card_id.
C37_SupersessionAcyclic == Acyclic(db)

\* No card has itself as supersedes_card_id.
NoSelfSupersession == \A c \in db.cards : c.supersedes_card_id # c.card_id

(***************************************************************************)
(* Retirement.                                                             *)
(***************************************************************************)
RetiredStatuses == {"deprecated", "archived"}

\* The operations C38 names: ingestion, consolidation, dedup, packing, dispute
\* and outcome.
RETIREMENT_OPERATIONS ==
  {"record_episode", "consolidate_episode", "run_dedup_daily", "build_pack",
   "record_dispute", "record_outcome"}

\* A card that is deprecated or archived in before is not live in after.
StaysRetired(before, after) ==
  \A c \in before.cards :
    (c.status \in RetiredStatuses /\ HasCard(after, c.card_id))
      => CardRow(after, c.card_id).status \notin LiveStatuses

\* archived_at is set exactly on the archived cards.
ArchivedAtMatchesStatus(d) ==
  \A c \in d.cards : (c.archived_at # -1) <=> (c.status = "archived")

\* C38: once a card is deprecated or archived, no ingestion, consolidation,
\* dedup, packing, dispute or outcome operation makes it active or
\* needs_recheck again, and a card has a non-null archived_at exactly when its
\* status is archived.
C38_RetirementIsFinal ==
  [][/\ last'.op \in RETIREMENT_OPERATIONS => StaysRetired(db, db')
     /\ ArchivedAtMatchesStatus(db')]_vars

\* The second part of C38 alone.
ArchivedAtSetWhenArchived == ArchivedAtMatchesStatus(db)

(***************************************************************************)
(* The duplicate gate and the other cards of the group.                    *)
(***************************************************************************)
\* The live cards of the candidate's kind and scope whose statement has a
\* lexical similarity of 0.80 or more and a cosine similarity of 0.92 or more
\* against the candidate's.
DuplicateCards(d, cand) ==
  {c \in ScopeCards(d, cand) :
     /\ jaccard_similarity(cand.statement, c.statement) >= 800
     /\ cosine_similarity_text(cand.statement, c.statement) >= 920}

\* The operations that run consolidate_episode.
CONSOLIDATING_OPERATIONS == {"consolidate_episode", "recover_partial_writes"}

\* C39: no candidate is admitted while some active or needs_recheck card of
\* its kind, scope_tier and scope_id has a lexical similarity of 0.80 or more
\* and a cosine similarity of 0.92 or more against it, whatever the
\* similarities of the other cards of the group are.
C39_NoAdmissionBesideDuplicate ==
  [][last'.op \in CONSOLIDATING_OPERATIONS
       => \A j \in (Len(db.memory_events) + 1)..Len(db'.memory_events) :
            db'.memory_events[j].event_type = "card_admitted"
            => \A k \in ProposalsOf(db'.memory_events, j) :
                 DuplicateCards(StoreBefore(db, db'.memory_events, j),
                                db'.memory_events[k].payload) = {}]_vars

\* A consolidation has rejected a candidate for its match with a card that
\* fails the duplicate test, and another card of the group passes it.
C39_Witness ==
  /\ last.op = "consolidate_episode"
  /\ \E j \in 1..Len(db.memory_events) :
       /\ RejectedAsNotNovel(db.memory_events, j)
       /\ \E k \in ProposalsOf(db.memory_events, j) :
            \E c \in DuplicateCards(db, db.memory_events[k].payload) :
              c.card_id # db.memory_events[j].payload.details.matched_card_id

(***************************************************************************)
(* Atomicity of one append_event.                                          *)
(***************************************************************************)
\* append_event of the i-th outside event with apply = true, in this state.
AppliedCall(i) ==
  append_event(Conn(db, disk), RawEvents[i].episode_id, RawEvents[i].event_type,
               RawEvents[i].payload, RawEvents[i].idempotency_key, TRUE, clock)

\* The step is that call.
IsAppliedCall(i) ==
  /\ last'.op = "append_event" /\ last'.arg = ToString(i)
  /\ db' = AppliedCall(i).db /\ disk' = AppliedCall(i).disk
  /\ last'.ok = AppliedCall(i).ok

\* The step has stored the row of the i-th outside event.
RowStored(i) ==
  /\ Len(db'.memory_events) = Len(db.memory_events) + 1
  /\ db'.memory_events[Len(db'.memory_events)].idempotency_key
       = RawEvents[i].idempotency_key

\* The store of after the step is the one the reducer makes of the store of
\* before with the new row.
EffectsApplied(i) ==
  db' = apply_event([db EXCEPT !.memory_events = db'.memory_events],
                    Len(db'.memory_events), RawEvents[i].episode_id,
                    RawEvents[i].event_type, RawEvents[i].payload, clock)

\* The step has left the log, the next seq_no of the episode and the projections
\* as they were.
NothingDone(i) ==
  /\ db'.memory_events = db.memory_events
  /\ NextSeqNo(db', RawEvents[i].episode_id) = NextSeqNo(db, RawEvents[i].episode_id)
  /\ ProjectionsOf(db') = ProjectionsOf(db)

\* C40: for every append_event call with apply = true, the row of the event is
\* stored if and only if the effects of its reducer were applied; when the
\* reducer raises, the event is not stored, no seq_no of the episode is
\* consumed, and the projections are unchanged.
C40_EventAtomicity ==
  [][\A i \in Catalogue[scn].raws :
       IsAppliedCall(i)
       => /\ RowStored(i) => EffectsApplied(i)
          /\ ~RowStored(i) => NothingDone(i)
          /\ ~last'.ok => ~RowStored(i)]_vars

\* C40, for a connection without uncommitted writes.
AtomicWhenCommitted ==
  [][\A i \in Catalogue[scn].raws :
       (IsAppliedCall(i) /\ db = disk)
       => /\ RowStored(i) => EffectsApplied(i)
          /\ ~RowStored(i) => NothingDone(i)
          /\ ~last'.ok => ~RowStored(i)]_vars

\* An append_event whose reducer raised has left the store as it was.
RaisedAndUnchanged ==
  /\ last.op = "append_event" /\ last.arg = "3" /\ ~last.ok
  /\ db = disk
  /\ KeyIndex(db, RawEvents[3].idempotency_key) = {}

====
